---- MODULE Spec2Model ----
(***************************************************************************)
(* Model of the SistemaElecciones contract (src/sistema-elecciones/lib.rs),  *)
(* of the election records it owns and of the Reporte contract              *)
(* (src/reporte/lib.rs) that reads it.  The contract storage is the state; *)
(* every message is one atomic action taking the caller and its arguments   *)
(* as inputs; the block timestamp is an environment variable that only      *)
(* advances.  Each handler is an operator returning the pair (result,       *)
(* storage after the call), computed in the order of the code's checks.     *)
(***************************************************************************)
EXTENDS Integers, Sequences, FiniteSets, TLC

\* ---------------------------------------------------------------- bounds
\* Accounts that call the contract; "a" deploys it.
Ids == {"a", "b", "c"}
Deployer == "a"
\* Elections created at most (crear_eleccion is guarded by it).
MaxElecciones == 1
\* Requests of one role (VOTANTE, CANDIDATO) queued or admitted in one election.
MaxPorTipo == 2
\* Clock steps taken at most (the clock runs from 0 to MaxTicks * TickMs).
MaxTicks == 3
\* Width of the u32 vote counter, scaled down: the largest value votos_totales
\* can hold (u32::MAX in the code).
MaxVotos == 1
\* Width of the u32 candidate number, scaled down: the largest candidato_id
\* (u32::MAX in the code).
MaxCandidatoId == 2
\* Requests one election receives at most in the queue specification (SpecCola).
MaxSolicitudes == 3
\* Width of the u32 arithmetic of the participation report, scaled down: the
\* largest value a u32 holds (u32::MAX in the code).
MaxU32 == 899
\* Voters at most in the list a participation report receives.
MaxVotantesReporte == 9
\* Candidates at most in the list a result report receives.
MaxCandidatosReporte == 3
\* Largest votos_totales in the list a result report receives.
MaxVotosReporte == 2
\* One clock step, in the milliseconds of block_timestamp (one minute).
TickMs == 60 * 1000

\* ---------------------------------------------------------------- values
VOTANTE == "VOTANTE"
CANDIDATO == "CANDIDATO"
TIPO_DE_USUARIO == {VOTANTE, CANDIDATO}

\* Option<T> as a sequence of length 0 (None) or 1 (Some).
None == <<>>
Some(x) == <<x>>
is_some(o) == Len(o) = 1
unwrap(o) == o[1]

\* Results: Ok, or the error of the taxonomy (one per message string of the code).
Ok == "Ok"
NotAdministrator == "NO_ES_ADMINISTRADOR"
NotRegistered == "USUARIO_NO_REGISTRADO"
RegistrationClosed == "RegistrationClosed"
IsAdministrator == "IsAdministrator"
AlreadyRejected == "AlreadyRejected"
AlreadyRegistered == "AlreadyRegistered"
AlreadyPending == "AlreadyPending"
NoPendingUsers == "NoPendingUsers"
AlreadyInState == "AlreadyInState"
BadStartDate == "BadStartDate"
BadEndDate == "BadEndDate"
ElectionNotFound == "ElectionNotFound"
VotingEnded == "VotingEnded"
CandidateIdOverflow == "CandidateIdOverflow"
AlreadyStarted == "AlreadyStarted"
TooEarly == "TooEarly"
AlreadyPendingInElection == "AlreadyPendingInElection"
AlreadyRejectedInElection == "AlreadyRejectedInElection"
VotingAlreadyStarted == "VotingAlreadyStarted"
ElectionEnded == "ElectionEnded"
CandidateNotFound == "CandidateNotFound"
NotRegisteredVoter == "NotRegisteredVoter"
AlreadyVoted == "AlreadyVoted"
Overflow == "Overflow"
ElectionNotFinished == "ElectionNotFinished"

NoPermission == "NoPermission"
\* The errors of Reporte, and the end of a call that returns no value.
SistemaNoSeteado == "Sistema elecciones no seteado"
NoSosElAdministrador == "No sos el administrador"
Panic == "panic"

\* ----------------------------------------------------------------- state
VARIABLES
    administrador,        \* AccountId
    generador_reportes,   \* Option<AccountId>
    registro_activado,    \* bool
    usuarios,             \* Vec<Usuario>
    usuarios_pendientes,  \* Vec<Usuario>
    usuarios_rechazados,  \* Vec<AccountId>
    elecciones,           \* Vec<Eleccion>
    block_timestamp,      \* the host's clock, in milliseconds
    exitos,               \* history: votar_a_candidato calls that returned Ok,
                          \* counted per <<election, caller>>
    reporte,              \* the storage of Reporte: administrador and
                          \* sistema_elecciones (Option<SistemaEleccionesRef>)
    entrada,              \* the message Reporte is sent and the replies the
                          \* contract it is pointed at gives to it
    informe               \* history: the value the last call of a report
                          \* message returned

vars == <<administrador, generador_reportes, registro_activado, usuarios,
          usuarios_pendientes, usuarios_rechazados, elecciones, block_timestamp,
          exitos, reporte, entrada, informe>>

\* The contract storage as one record (the `self` of the handlers).
Self == [administrador |-> administrador,
         generador_reportes |-> generador_reportes,
         registro_activado |-> registro_activado,
         usuarios |-> usuarios,
         usuarios_pendientes |-> usuarios_pendientes,
         usuarios_rechazados |-> usuarios_rechazados,
         elecciones |-> elecciones]

\* ------------------------------------------------------- sequence helpers
Range(s) == {s[i] : i \in 1..Len(s)}
\* Mutant of RemoveFirst: the newest element is taken out of the vector.
RemoveUltimo(s) == SubSeq(s, 1, Len(s) - 1)
\* Vec::remove(0)
RemoveFirst(s) == SubSeq(s, 2, Len(s))
\* Mutant of checked_add_1: nothing is added.
checked_add_1_sin_sumar(x) == Some(x)
\* u32::checked_add(1): None on overflow of the counter's width.
checked_add_1(x) == IF x + 1 > MaxVotos THEN None ELSE Some(x + 1)
\* Mutant of checked_add_1_id: the length is taken as the number.
checked_add_1_id_sin_sumar(x) == Some(x)
\* (self.candidatos.len() as u32).checked_add(1): None past the number's width.
checked_add_1_id(x) == IF x + 1 > MaxCandidatoId THEN None ELSE Some(x + 1)

\* ------------------------------------------------------------- Eleccion
\* Mutant of contiene_usuario_pendiente: only the head of the queue is compared.
contiene_usuario_pendiente_solo_primero(el, id) ==
    el.usuarios_pendientes # <<>> /\ el.usuarios_pendientes[1][1] = id

\* Eleccion::contiene_usuario_pendiente
contiene_usuario_pendiente(el, id) ==
    \E i \in 1..Len(el.usuarios_pendientes) : el.usuarios_pendientes[i][1] = id

\* Eleccion::existe_candidato
existe_candidato(el, candidato_id) ==
    candidato_id >= 1 /\ candidato_id <= Len(el.candidatos)

\* votantes.iter_mut().find(|v| v.id == votante_id): index of the first record
\* of that account, 0 when there is none.
buscar_votante(el, votante_id) ==
    IF \E i \in 1..Len(el.votantes) : el.votantes[i].id = votante_id
    THEN CHOOSE i \in 1..Len(el.votantes) :
            /\ el.votantes[i].id = votante_id
            /\ \A j \in 1..(i - 1) : el.votantes[j].id # votante_id
    ELSE 0

\* Mutant of deshacer_voto: the flag set before the failed increment is kept.
deshacer_voto_omitido(el, i) == el

\* Mutant of deshacer_voto: the flag of every voter is cleared.
deshacer_voto_de_todos(el, i) ==
    [el EXCEPT !.votantes = [j \in 1..Len(@) |-> [@[j] EXCEPT !.voto_emitido = FALSE]]]

\* The None arm of checked_add in votar_candidato: undo the flag set before.
deshacer_voto(el, i) == [el EXCEPT !.votantes[i].voto_emitido = FALSE]

\* Mutant of votar_candidato: the voto_emitido test is missing.
votar_candidato_sin_ya_voto(el, votante_id, candidato_id) ==
    IF ~existe_candidato(el, candidato_id)
    THEN [res |-> CandidateNotFound, el |-> el]
    ELSE LET i == buscar_votante(el, votante_id) IN
         IF i = 0 THEN [res |-> NotRegisteredVoter, el |-> el]
         ELSE LET el1 == [el EXCEPT !.votantes[i].voto_emitido = TRUE]
                  suma == checked_add_1(el1.candidatos[candidato_id].votos_totales)
              IN IF ~is_some(suma)
                 THEN [res |-> Overflow, el |-> deshacer_voto(el1, i)]
                 ELSE [res |-> Ok,
                       el |-> [el1 EXCEPT !.candidatos[candidato_id].votos_totales
                                               = unwrap(suma)]]

\* Mutant of votar_candidato: the voter is looked up before the candidate.
votar_candidato_votante_primero(el, votante_id, candidato_id) ==
    LET i == buscar_votante(el, votante_id) IN
    IF i = 0 THEN [res |-> NotRegisteredVoter, el |-> el]
    ELSE IF el.votantes[i].voto_emitido THEN [res |-> AlreadyVoted, el |-> el]
    ELSE IF ~existe_candidato(el, candidato_id)
         THEN [res |-> CandidateNotFound, el |-> el]
    ELSE LET el1 == [el EXCEPT !.votantes[i].voto_emitido = TRUE]
             suma == checked_add_1(el1.candidatos[candidato_id].votos_totales)
         IN IF ~is_some(suma)
            THEN [res |-> Overflow, el |-> deshacer_voto(el1, i)]
            ELSE [res |-> Ok,
                  el |-> [el1 EXCEPT !.candidatos[candidato_id].votos_totales
                                          = unwrap(suma)]]

\* Mutant of votar_candidato: the vote is counted and the voter is not marked.
votar_candidato_sin_marcar(el, votante_id, candidato_id) ==
    IF ~existe_candidato(el, candidato_id)
    THEN [res |-> CandidateNotFound, el |-> el]
    ELSE LET i == buscar_votante(el, votante_id) IN
         IF i = 0 THEN [res |-> NotRegisteredVoter, el |-> el]
         ELSE IF el.votantes[i].voto_emitido THEN [res |-> AlreadyVoted, el |-> el]
         ELSE LET suma == checked_add_1(el.candidatos[candidato_id].votos_totales)
              IN IF ~is_some(suma)
                 THEN [res |-> Overflow, el |-> el]
                 ELSE [res |-> Ok,
                       el |-> [el EXCEPT !.candidatos[candidato_id].votos_totales
                                              = unwrap(suma)]]

\* Eleccion::votar_candidato
votar_candidato(el, votante_id, candidato_id) ==
    IF ~existe_candidato(el, candidato_id)
    THEN [res |-> CandidateNotFound, el |-> el]
    ELSE LET i == buscar_votante(el, votante_id) IN
         IF i = 0 THEN [res |-> NotRegisteredVoter, el |-> el]
         ELSE IF el.votantes[i].voto_emitido THEN [res |-> AlreadyVoted, el |-> el]
         ELSE LET el1 == [el EXCEPT !.votantes[i].voto_emitido = TRUE]
                  suma == checked_add_1(el1.candidatos[candidato_id].votos_totales)
              IN IF ~is_some(suma)
                 THEN [res |-> Overflow, el |-> deshacer_voto(el1, i)]
                 ELSE [res |-> Ok,
                       el |-> [el1 EXCEPT !.candidatos[candidato_id].votos_totales
                                               = unwrap(suma)]]

\* Eleccion::procesar_siguiente_usuario_pendiente.  The head request is removed
\* first; the overflow arm of the candidate number then returns with it removed.
procesar_siguiente_usuario_pendiente_eleccion(el, aceptar_usuario) ==
    IF el.usuarios_pendientes = <<>> THEN [res |-> NoPendingUsers, el |-> el]
    ELSE LET usuario == el.usuarios_pendientes[1][1]
             tipo == el.usuarios_pendientes[1][2]
             el1 == [el EXCEPT !.usuarios_pendientes = RemoveFirst(@)]
         IN IF aceptar_usuario
            THEN IF tipo = VOTANTE
                 THEN [res |-> Ok,
                       el |-> [el1 EXCEPT !.votantes =
                                  Append(@, [id |-> usuario, voto_emitido |-> FALSE])]]
                 ELSE LET candidato_id == checked_add_1_id(Len(el1.candidatos)) IN
                      IF ~is_some(candidato_id)
                      THEN [res |-> CandidateIdOverflow, el |-> el1]
                      ELSE [res |-> Ok,
                            el |-> [el1 EXCEPT !.candidatos =
                                       Append(@, [id |-> usuario,
                                                  candidato_id |-> unwrap(candidato_id),
                                                  votos_totales |-> 0])]]
            ELSE [res |-> Ok,
                  el |-> [el1 EXCEPT !.usuarios_rechazados = Append(@, usuario)]]

\* Mutant of resultados_disponibles: the results open one instant late.
resultados_disponibles_tarde(el, ts) == el.fecha_final < ts

\* The election is closed for the results: the negation of
\* `self.fecha_final > block_timestamp` in obtener_resultados_votacion.
resultados_disponibles(el, ts) == ~(el.fecha_final > ts)

\* Mutant of calcular_resultados: every voter counts as a vote cast.
calcular_resultados_todos(el) ==
    [votos_totales |-> Len(el.votantes),
     votos_realizados |-> Len(el.votantes),
     votos_candidatos |->
        [i \in 1..Len(el.candidatos) |->
            <<el.candidatos[i].id, el.candidatos[i].votos_totales>>]]

\* The Resultados computed from the election's lists.
calcular_resultados(el) ==
    [votos_totales |-> Len(el.votantes),
     votos_realizados |->
        Cardinality({i \in 1..Len(el.votantes) : el.votantes[i].voto_emitido}),
     votos_candidatos |->
        [i \in 1..Len(el.candidatos) |->
            <<el.candidatos[i].id, el.candidatos[i].votos_totales>>]]

\* Mutant of obtener_resultados_votacion: the results are computed at every call.
obtener_resultados_votacion_sin_cache(el, ts) ==
    IF ~resultados_disponibles(el, ts) THEN [res |-> None, el |-> el]
    ELSE LET el1 == [el EXCEPT !.resultados = Some(calcular_resultados(el))]
         IN [res |-> el1.resultados, el |-> el1]

\* Eleccion::obtener_resultados_votacion: (Option<Resultados>, election after)
obtener_resultados_votacion(el, ts) ==
    IF ~resultados_disponibles(el, ts) THEN [res |-> None, el |-> el]
    ELSE IF is_some(el.resultados) THEN [res |-> el.resultados, el |-> el]
    ELSE LET el1 == [el EXCEPT !.resultados = Some(calcular_resultados(el))]
         IN [res |-> el1.resultados, el |-> el1]

\* ----------------------------------------------------------------- dates
\* A date string "dd-mm-YYYY HH:MM" as the tuple of its five numbers.
\* chrono's parse_from_str(.., "%d-%m-%Y %H:%M") and timestamp_millis, for the
\* dates of 1970 (the epoch year, whose day count needs no leap rule).
DiasDelMes(m) == CASE m = 2 -> 28
                   [] m \in {4, 6, 9, 11} -> 30
                   [] OTHER -> 31
RECURSIVE DiasAntesDelMes(_)
DiasAntesDelMes(m) == IF m <= 1 THEN 0 ELSE DiasDelMes(m - 1) + DiasAntesDelMes(m - 1)
ParseFecha(f) ==
    LET d == f[1]  m == f[2]  y == f[3]  hh == f[4]  mm == f[5] IN
    IF /\ y = 1970 /\ m \in 1..12 /\ d \in 1..DiasDelMes(m)
       /\ hh \in 0..23 /\ mm \in 0..59
    THEN Some((((DiasAntesDelMes(m) + (d - 1)) * 24 + hh) * 60 + mm) * 60 * 1000)
    ELSE None

\* ---------------------------------------------------- SistemaElecciones
es_generador_reportes(caller) ==
    IF ~is_some(generador_reportes) THEN FALSE ELSE caller = unwrap(generador_reportes)
\* Mutant of es_administrador: the deployer is the administrator for ever.
es_administrador_inicial(caller) == caller = Deployer
es_administrador(caller) == caller = administrador
\* obtener_usuario: index of the account's profile in usuarios, 0 when absent
obtener_usuario(id) ==
    IF \E i \in 1..Len(usuarios) : usuarios[i].id = id
    THEN CHOOSE i \in 1..Len(usuarios) :
            usuarios[i].id = id /\ \A j \in 1..(i - 1) : usuarios[j].id # id
    ELSE 0
es_usuario_registrado(caller) == \E i \in 1..Len(usuarios) : usuarios[i].id = caller
\* Mutant of es_usuario_pendiente: the pending queue is not read.
es_usuario_pendiente_nunca(caller) == FALSE
es_usuario_pendiente(caller) ==
    \E i \in 1..Len(usuarios_pendientes) : usuarios_pendientes[i].id = caller
existe_eleccion(eleccion_id) == eleccion_id >= 1 /\ eleccion_id <= Len(elecciones)

\* Mutant of validar_estado_eleccion: only the clock decides that voting began.
validar_estado_eleccion_sin_bandera(eleccion_id, ts, id_usuario) ==
    IF ~existe_eleccion(eleccion_id) THEN ElectionNotFound
    ELSE LET eleccion == elecciones[eleccion_id] IN
         IF contiene_usuario_pendiente(eleccion, id_usuario) THEN AlreadyPendingInElection
         ELSE IF eleccion.fecha_inicio < ts THEN VotingAlreadyStarted
         ELSE IF eleccion.fecha_final < ts THEN ElectionEnded
         ELSE Ok

\* Mutant of validar_estado_eleccion: the end of the election is tested before
\* its start.
validar_estado_eleccion_fin_primero(eleccion_id, ts, id_usuario) ==
    IF ~existe_eleccion(eleccion_id) THEN ElectionNotFound
    ELSE LET eleccion == elecciones[eleccion_id] IN
         IF contiene_usuario_pendiente(eleccion, id_usuario) THEN AlreadyPendingInElection
         ELSE IF eleccion.fecha_final < ts THEN ElectionEnded
         ELSE IF eleccion.votacion_iniciada \/ eleccion.fecha_inicio < ts
              THEN VotingAlreadyStarted
         ELSE Ok

\* validar_estado_eleccion: Ok, or the error that refuses the request
validar_estado_eleccion(eleccion_id, ts, id_usuario) ==
    IF ~existe_eleccion(eleccion_id) THEN ElectionNotFound
    ELSE LET eleccion == elecciones[eleccion_id] IN
         IF contiene_usuario_pendiente(eleccion, id_usuario) THEN AlreadyPendingInElection
         ELSE IF eleccion.votacion_iniciada \/ eleccion.fecha_inicio < ts
              THEN VotingAlreadyStarted
         ELSE IF eleccion.fecha_final < ts THEN ElectionEnded
         ELSE Ok

\* Mutant of registrarse_privado: the administrator test comes after the
\* membership tests.
registrarse_privado_admin_al_final(caller, nombre, apellido, dni) ==
    IF ~registro_activado THEN [res |-> RegistrationClosed, self |-> Self]
    ELSE IF caller \in Range(usuarios_rechazados)
         THEN [res |-> AlreadyRejected, self |-> Self]
    ELSE IF es_usuario_registrado(caller) THEN [res |-> AlreadyRegistered, self |-> Self]
    ELSE IF es_usuario_pendiente(caller) THEN [res |-> AlreadyPending, self |-> Self]
    ELSE IF es_administrador(caller) THEN [res |-> IsAdministrator, self |-> Self]
    ELSE [res |-> Ok,
          self |-> [Self EXCEPT !.usuarios_pendientes =
                      Append(@, [id |-> caller, nombre |-> nombre,
                                 apellido |-> apellido, dni |-> dni])]]

\* Mutant of registrarse_privado: the rejected set is not read.
registrarse_privado_sin_rechazados(caller, nombre, apellido, dni) ==
    IF ~registro_activado THEN [res |-> RegistrationClosed, self |-> Self]
    ELSE IF es_administrador(caller) THEN [res |-> IsAdministrator, self |-> Self]
    ELSE IF es_usuario_registrado(caller) THEN [res |-> AlreadyRegistered, self |-> Self]
    ELSE IF es_usuario_pendiente(caller) THEN [res |-> AlreadyPending, self |-> Self]
    ELSE [res |-> Ok,
          self |-> [Self EXCEPT !.usuarios_pendientes =
                      Append(@, [id |-> caller, nombre |-> nombre,
                                 apellido |-> apellido, dni |-> dni])]]

\* registrarse_privado
registrarse_privado(caller, nombre, apellido, dni) ==
    IF ~registro_activado THEN [res |-> RegistrationClosed, self |-> Self]
    ELSE IF es_administrador(caller) THEN [res |-> IsAdministrator, self |-> Self]
    ELSE IF caller \in Range(usuarios_rechazados)
         THEN [res |-> AlreadyRejected, self |-> Self]
    ELSE IF es_usuario_registrado(caller) THEN [res |-> AlreadyRegistered, self |-> Self]
    ELSE IF es_usuario_pendiente(caller) THEN [res |-> AlreadyPending, self |-> Self]
    ELSE [res |-> Ok,
          self |-> [Self EXCEPT !.usuarios_pendientes =
                      Append(@, [id |-> caller, nombre |-> nombre,
                                 apellido |-> apellido, dni |-> dni])]]

\* procesar_siguiente_usuario_pendiente_privado
procesar_siguiente_usuario_pendiente_privado(caller, aceptar_usuario) ==
    IF ~es_administrador(caller) THEN [res |-> NotAdministrator, self |-> Self]
    ELSE IF usuarios_pendientes = <<>> THEN [res |-> NoPendingUsers, self |-> Self]
    ELSE LET usuario == usuarios_pendientes[1]
             s1 == [Self EXCEPT !.usuarios_pendientes = RemoveFirst(@)]
         IN IF aceptar_usuario
            THEN [res |-> Ok, self |-> [s1 EXCEPT !.usuarios = Append(@, usuario)]]
            ELSE [res |-> Ok,
                  self |-> [s1 EXCEPT !.usuarios_rechazados = Append(@, usuario.id)]]

\* Mutant of crear_eleccion_privado: the id is the count before the creation.
crear_eleccion_privado_sin_sumar(caller, fecha_inicial, fecha_final) ==
    IF ~es_administrador(caller) THEN [res |-> NotAdministrator, self |-> Self]
    ELSE IF ~is_some(ParseFecha(fecha_inicial)) THEN [res |-> BadStartDate, self |-> Self]
    ELSE IF ~is_some(ParseFecha(fecha_final)) THEN [res |-> BadEndDate, self |-> Self]
    ELSE LET eleccion == [id |-> Len(elecciones),
                          candidatos |-> <<>>,
                          votantes |-> <<>>,
                          usuarios_pendientes |-> <<>>,
                          usuarios_rechazados |-> <<>>,
                          votacion_iniciada |-> FALSE,
                          fecha_inicio |-> unwrap(ParseFecha(fecha_inicial)),
                          fecha_final |-> unwrap(ParseFecha(fecha_final)),
                          resultados |-> None]
         IN [res |-> Ok, self |-> [Self EXCEPT !.elecciones = Append(@, eleccion)]]

\* crear_eleccion_privado
crear_eleccion_privado(caller, fecha_inicial, fecha_final) ==
    IF ~es_administrador(caller) THEN [res |-> NotAdministrator, self |-> Self]
    ELSE IF ~is_some(ParseFecha(fecha_inicial)) THEN [res |-> BadStartDate, self |-> Self]
    ELSE IF ~is_some(ParseFecha(fecha_final)) THEN [res |-> BadEndDate, self |-> Self]
    ELSE LET eleccion_id == Len(elecciones) + 1
             eleccion == [id |-> eleccion_id,
                          candidatos |-> <<>>,
                          votantes |-> <<>>,
                          usuarios_pendientes |-> <<>>,
                          usuarios_rechazados |-> <<>>,
                          votacion_iniciada |-> FALSE,
                          fecha_inicio |-> unwrap(ParseFecha(fecha_inicial)),
                          fecha_final |-> unwrap(ParseFecha(fecha_final)),
                          resultados |-> None]
         IN [res |-> Ok, self |-> [Self EXCEPT !.elecciones = Append(@, eleccion)]]

\* Mutant of iniciar_votacion_privado: "already started" is tested before "ended".
iniciar_votacion_privado_otro_orden(caller, eleccion_id) ==
    IF ~es_administrador(caller) THEN [res |-> NotAdministrator, self |-> Self]
    ELSE IF ~existe_eleccion(eleccion_id) THEN [res |-> ElectionNotFound, self |-> Self]
    ELSE LET eleccion == elecciones[eleccion_id] IN
         IF eleccion.votacion_iniciada THEN [res |-> AlreadyStarted, self |-> Self]
         ELSE IF block_timestamp > eleccion.fecha_final THEN [res |-> VotingEnded, self |-> Self]
         ELSE IF block_timestamp < eleccion.fecha_inicio THEN [res |-> TooEarly, self |-> Self]
         ELSE [res |-> Ok,
               self |-> [Self EXCEPT !.elecciones[eleccion_id].votacion_iniciada = TRUE]]

\* iniciar_votacion_privado
iniciar_votacion_privado(caller, eleccion_id) ==
    IF ~es_administrador(caller) THEN [res |-> NotAdministrator, self |-> Self]
    ELSE IF ~existe_eleccion(eleccion_id) THEN [res |-> ElectionNotFound, self |-> Self]
    ELSE LET eleccion == elecciones[eleccion_id] IN
         IF block_timestamp > eleccion.fecha_final THEN [res |-> VotingEnded, self |-> Self]
         ELSE IF eleccion.votacion_iniciada THEN [res |-> AlreadyStarted, self |-> Self]
         ELSE IF block_timestamp < eleccion.fecha_inicio THEN [res |-> TooEarly, self |-> Self]
         ELSE [res |-> Ok,
               self |-> [Self EXCEPT !.elecciones[eleccion_id].votacion_iniciada = TRUE]]

\* procesar_usuarios_en_una_eleccion_privado
procesar_usuarios_en_una_eleccion_privado(caller, eleccion_id, aceptar_usuario) ==
    IF ~es_administrador(caller) THEN [res |-> NotAdministrator, self |-> Self]
    ELSE IF ~existe_eleccion(eleccion_id) THEN [res |-> ElectionNotFound, self |-> Self]
    ELSE LET r == procesar_siguiente_usuario_pendiente_eleccion(
                      elecciones[eleccion_id], aceptar_usuario)
         IN [res |-> r.res, self |-> [Self EXCEPT !.elecciones[eleccion_id] = r.el]]

\* Mutant of ingresar_a_eleccion_privado: the election's rejected set is not read.
ingresar_a_eleccion_privado_sin_rechazo(caller, eleccion_id, tipo) ==
    IF ~es_usuario_registrado(caller) THEN [res |-> NotRegistered, self |-> Self]
    ELSE LET result == validar_estado_eleccion(eleccion_id, block_timestamp, caller) IN
         IF result # Ok THEN [res |-> result, self |-> Self]
         ELSE [res |-> Ok,
               self |-> [Self EXCEPT !.elecciones[eleccion_id].usuarios_pendientes =
                           Append(@, <<caller, tipo>>)]]

\* Mutant of ingresar_a_eleccion_privado: the caller's registration is not read.
ingresar_a_eleccion_privado_sin_registro(caller, eleccion_id, tipo) ==
    LET result == validar_estado_eleccion(eleccion_id, block_timestamp, caller) IN
    IF result # Ok THEN [res |-> result, self |-> Self]
    ELSE LET eleccion == elecciones[eleccion_id] IN
         IF caller \in Range(eleccion.usuarios_rechazados)
         THEN [res |-> AlreadyRejectedInElection, self |-> Self]
         ELSE IF contiene_usuario_pendiente(eleccion, caller)
              THEN [res |-> AlreadyPendingInElection, self |-> Self]
         ELSE [res |-> Ok,
               self |-> [Self EXCEPT !.elecciones[eleccion_id].usuarios_pendientes =
                           Append(@, <<caller, tipo>>)]]

\* ingresar_a_eleccion_privado
ingresar_a_eleccion_privado(caller, eleccion_id, tipo) ==
    IF ~es_usuario_registrado(caller) THEN [res |-> NotRegistered, self |-> Self]
    ELSE LET result == validar_estado_eleccion(eleccion_id, block_timestamp, caller) IN
         IF result # Ok THEN [res |-> result, self |-> Self]
         ELSE LET eleccion == elecciones[eleccion_id] IN
              IF caller \in Range(eleccion.usuarios_rechazados)
              THEN [res |-> AlreadyRejectedInElection, self |-> Self]
              ELSE IF contiene_usuario_pendiente(eleccion, caller)
                   THEN [res |-> AlreadyPendingInElection, self |-> Self]
              ELSE [res |-> Ok,
                    self |-> [Self EXCEPT !.elecciones[eleccion_id].usuarios_pendientes =
                                Append(@, <<caller, tipo>>)]]

\* `block_timestamp > eleccion.fecha_final` in votar_a_candidato_privado
votacion_finalizada(eleccion, ts) == ts > eleccion.fecha_final

\* Mutant of votar_a_candidato_privado: the start of the election is not
\* awaited.
votar_a_candidato_privado_sin_inicio(caller, eleccion_id, candidato_id) ==
    IF ~es_usuario_registrado(caller) THEN [res |-> NotRegistered, self |-> Self]
    ELSE IF ~existe_eleccion(eleccion_id) THEN [res |-> ElectionNotFound, self |-> Self]
    ELSE LET eleccion == elecciones[eleccion_id]
             el1 == [eleccion EXCEPT !.votacion_iniciada = TRUE]
             s1 == [Self EXCEPT !.elecciones[eleccion_id] = el1]
         IN IF votacion_finalizada(el1, block_timestamp)
            THEN [res |-> VotingEnded, self |-> s1]
            ELSE LET r == votar_candidato(el1, caller, candidato_id)
                 IN [res |-> r.res,
                     self |-> [Self EXCEPT !.elecciones[eleccion_id] = r.el]]

\* votar_a_candidato_privado
votar_a_candidato_privado(caller, eleccion_id, candidato_id) ==
    IF ~es_usuario_registrado(caller) THEN [res |-> NotRegistered, self |-> Self]
    ELSE IF ~existe_eleccion(eleccion_id) THEN [res |-> ElectionNotFound, self |-> Self]
    ELSE LET eleccion == elecciones[eleccion_id] IN
         IF ~eleccion.votacion_iniciada /\ block_timestamp < eleccion.fecha_inicio
         THEN [res |-> TooEarly, self |-> Self]
         ELSE LET el1 == [eleccion EXCEPT !.votacion_iniciada = TRUE]
                  s1 == [Self EXCEPT !.elecciones[eleccion_id] = el1]
              IN IF votacion_finalizada(el1, block_timestamp)
                 THEN [res |-> VotingEnded, self |-> s1]
                 ELSE LET r == votar_candidato(el1, caller, candidato_id)
                      IN [res |-> r.res,
                          self |-> [Self EXCEPT !.elecciones[eleccion_id] = r.el]]

\* activar_registro_privado
activar_registro_privado(caller) ==
    IF ~es_administrador(caller) THEN [res |-> NotAdministrator, self |-> Self]
    ELSE IF registro_activado THEN [res |-> AlreadyInState, self |-> Self]
    ELSE [res |-> Ok, self |-> [Self EXCEPT !.registro_activado = TRUE]]

\* Mutant of desactivar_registro_privado: the flag's value is not tested.
desactivar_registro_privado_sin_guarda(caller) ==
    IF ~es_administrador(caller) THEN [res |-> NotAdministrator, self |-> Self]
    ELSE [res |-> Ok, self |-> [Self EXCEPT !.registro_activado = FALSE]]

\* desactivar_registro_privado
desactivar_registro_privado(caller) ==
    IF ~es_administrador(caller) THEN [res |-> NotAdministrator, self |-> Self]
    ELSE IF ~registro_activado THEN [res |-> AlreadyInState, self |-> Self]
    ELSE [res |-> Ok, self |-> [Self EXCEPT !.registro_activado = FALSE]]

\* Mutant of transferir_administrador_privado: the role stays where it is.
transferir_administrador_privado_sin_efecto(caller, id) ==
    IF ~es_administrador(caller) THEN [res |-> NotAdministrator, self |-> Self]
    ELSE [res |-> Ok, self |-> Self]

\* transferir_administrador_privado
transferir_administrador_privado(caller, id) ==
    IF ~es_administrador(caller) THEN [res |-> NotAdministrator, self |-> Self]
    ELSE [res |-> Ok, self |-> [Self EXCEPT !.administrador = id]]

\* asignar_generador_reportes_privado
asignar_generador_reportes_privado(caller, id) ==
    IF ~es_administrador(caller) THEN [res |-> NotAdministrator, self |-> Self]
    ELSE [res |-> Ok, self |-> [Self EXCEPT !.generador_reportes = Some(id)]]

\* Mutant of obtener_informacion_usuario_privado: the caller's role is not read.
obtener_informacion_usuario_privado_sin_rol(caller, user_id) ==
    LET i == obtener_usuario(user_id) IN
    IF i = 0 THEN None
    ELSE Some(<<usuarios[i].nombre, usuarios[i].apellido, usuarios[i].dni>>)

\* obtener_informacion_usuario_privado: Option<(nombre, apellido, dni)>
obtener_informacion_usuario_privado(caller, user_id) ==
    IF ~es_generador_reportes(caller) /\ ~es_administrador(caller) THEN None
    ELSE LET i == obtener_usuario(user_id) IN
         IF i = 0 THEN None
         ELSE Some(<<usuarios[i].nombre, usuarios[i].apellido, usuarios[i].dni>>)

\* Mutant of obtener_votantes_eleccion_por_id_privado: the end of the election
\* is not awaited.
obtener_votantes_eleccion_por_id_privado_sin_espera(caller, eleccion_id) ==
    IF ~es_generador_reportes(caller) /\ ~es_administrador(caller)
    THEN [res |-> NoPermission, datos |-> <<>>, self |-> Self]
    ELSE IF ~existe_eleccion(eleccion_id)
         THEN [res |-> ElectionNotFound, datos |-> <<>>, self |-> Self]
    ELSE LET eleccion == elecciones[eleccion_id] IN
         [res |-> Ok,
          datos |-> [i \in 1..Len(eleccion.votantes) |->
                        <<eleccion.votantes[i].id, eleccion.votantes[i].voto_emitido>>],
          self |-> Self]

\* obtener_votantes_eleccion_por_id_privado: Ok with (id, voto_emitido) per
\* voter in list order, or the error
obtener_votantes_eleccion_por_id_privado(caller, eleccion_id) ==
    IF ~es_generador_reportes(caller) /\ ~es_administrador(caller)
    THEN [res |-> NoPermission, datos |-> <<>>, self |-> Self]
    ELSE IF ~existe_eleccion(eleccion_id)
         THEN [res |-> ElectionNotFound, datos |-> <<>>, self |-> Self]
    ELSE LET eleccion == elecciones[eleccion_id] IN
         IF eleccion.fecha_final > block_timestamp
         THEN [res |-> ElectionNotFinished, datos |-> <<>>, self |-> Self]
         ELSE [res |-> Ok,
               datos |-> [i \in 1..Len(eleccion.votantes) |->
                             <<eleccion.votantes[i].id, eleccion.votantes[i].voto_emitido>>],
               self |-> Self]

\* obtener_candidatos_eleccion_por_id_privado: Ok with (id, votos_totales) per
\* candidate in list order, or the error
obtener_candidatos_eleccion_por_id_privado(caller, eleccion_id) ==
    IF ~es_generador_reportes(caller) /\ ~es_administrador(caller)
    THEN [res |-> NoPermission, datos |-> <<>>, self |-> Self]
    ELSE IF ~existe_eleccion(eleccion_id)
         THEN [res |-> ElectionNotFound, datos |-> <<>>, self |-> Self]
    ELSE LET eleccion == elecciones[eleccion_id] IN
         IF eleccion.fecha_final > block_timestamp
         THEN [res |-> ElectionNotFinished, datos |-> <<>>, self |-> Self]
         ELSE [res |-> Ok,
               datos |-> [i \in 1..Len(eleccion.candidatos) |->
                             <<eleccion.candidatos[i].id, eleccion.candidatos[i].votos_totales>>],
               self |-> Self]

\* Eleccion::obtener_informacion_candidato: Option<&CandidatoConteo>
obtener_informacion_candidato(el, candidato_id) ==
    IF ~existe_candidato(el, candidato_id) THEN None ELSE Some(el.candidatos[candidato_id])

\* obtener_informacion_candidato_eleccion_privado: Ok with the text of the
\* candidate's profile (its pieces, in order), or the error; the `expect` on a
\* candidate without a profile panics.
obtener_informacion_candidato_eleccion_privado(eleccion_id, candidato_id) ==
    IF ~existe_eleccion(eleccion_id)
    THEN [res |-> ElectionNotFound, payload |-> None, self |-> Self]
    ELSE LET candidato_info ==
                 obtener_informacion_candidato(elecciones[eleccion_id], candidato_id) IN
         IF ~is_some(candidato_info)
         THEN [res |-> CandidateNotFound, payload |-> None, self |-> Self]
         ELSE LET i == obtener_usuario(unwrap(candidato_info).id) IN
              IF i = 0 THEN [res |-> Panic, payload |-> None, self |-> Self]
              ELSE [res |-> Ok,
                    payload |-> Some(<<"Nombre: ", usuarios[i].nombre,
                                       "\nApellido: ", usuarios[i].apellido,
                                       "\nDNI: ", usuarios[i].dni>>),
                    self |-> Self]

\* obtener_resultados_privado: res is Ok with the payload, or the error
obtener_resultados_privado(eleccion_id) ==
    IF ~existe_eleccion(eleccion_id)
    THEN [res |-> ElectionNotFound, payload |-> None, self |-> Self]
    ELSE LET r == obtener_resultados_votacion(elecciones[eleccion_id], block_timestamp)
             s1 == [Self EXCEPT !.elecciones[eleccion_id] = r.el]
         IN IF ~is_some(r.res)
            THEN [res |-> ElectionNotFinished, payload |-> None, self |-> s1]
            ELSE [res |-> Ok, payload |-> r.res, self |-> s1]

\* ---------------------------------------------------------------- Reporte
\* Reporte::new
Reporte_new(caller) == [administrador |-> caller, sistema_elecciones |-> None]

\* set_sistema_elecciones: (result, storage after the call)
set_sistema_elecciones(r, caller, sistema) ==
    IF caller # r.administrador
    THEN [res |-> NoSosElAdministrador, self |-> r]
    ELSE [res |-> Ok, self |-> [r EXCEPT !.sistema_elecciones = Some(sistema)]]

\* The reply of obtener_informacion_usuario for an account: its profile when
\* the contract knows the account, None otherwise.
informacion(conocidos, id) ==
    IF id \in conocidos THEN Some(<<"nombre", "apellido", "dni">>) ELSE None

\* Option::unwrap_or_default of a profile: three empty strings for None.
unwrap_or_default(o) == IF is_some(o) THEN unwrap(o) ELSE <<"", "", "">>

\* reporte_de_votantes_por_eleccion.  `respuesta` is the reply of
\* obtener_votantes_eleccion_por_id and `conocidos` the accounts
\* obtener_informacion_usuario answers with a profile.
reporte_de_votantes_por_eleccion(r, respuesta, conocidos) ==
    IF ~is_some(r.sistema_elecciones) THEN [res |-> SistemaNoSeteado, payload |-> None]
    ELSE IF respuesta.res # Ok THEN [res |-> respuesta.res, payload |-> None]
    ELSE [res |-> Ok,
          payload |-> [i \in 1..Len(respuesta.datos) |->
                          LET datos_votante == respuesta.datos[i]
                              datos_usuario == unwrap_or_default(informacion(conocidos, datos_votante[1]))
                          IN <<datos_votante[1], datos_usuario[1], datos_usuario[2],
                               datos_usuario[3]>>]]

\* u32 `mul`: past the width the call panics in a build with overflow checks
\* and the product wraps in a build without them.  None is the panic.
mul(a, b, overflow_checks) ==
    IF a * b <= MaxU32 THEN Some(a * b)
    ELSE IF overflow_checks THEN None
    ELSE Some((a * b) % (MaxU32 + 1))

\* u32::div_ceil: the quotient, one more when there is a remainder; a zero
\* divisor panics.  None is the panic.
div_ceil(a, b) ==
    IF b = 0 THEN None
    ELSE LET d == a \div b
             m == a % b
         IN Some(IF m > 0 THEN d + 1 ELSE d)

\* reporte_de_participacion_por_eleccion.  `respuesta` is the reply of
\* obtener_votantes_eleccion_por_id.
reporte_de_participacion_por_eleccion(r, respuesta, overflow_checks) ==
    IF ~is_some(r.sistema_elecciones) THEN [res |-> SistemaNoSeteado, payload |-> None]
    ELSE IF respuesta.res # Ok THEN [res |-> respuesta.res, payload |-> None]
    ELSE LET datos_votantes == respuesta.datos
             cantidad_votantes == Len(datos_votantes)
             cantidad_votantes_voto_efectivo ==
                 Cardinality({i \in 1..Len(datos_votantes) : datos_votantes[i][2]})
             producto == mul(cantidad_votantes_voto_efectivo, 100, overflow_checks)
         IN IF ~is_some(producto) THEN [res |-> Panic, payload |-> None]
            ELSE LET porcentaje_participacion == div_ceil(unwrap(producto), cantidad_votantes)
                 IN IF ~is_some(porcentaje_participacion)
                    THEN [res |-> Panic, payload |-> None]
                    ELSE [res |-> Ok,
                          payload |-> <<cantidad_votantes_voto_efectivo,
                                        unwrap(porcentaje_participacion)>>]

\* Mutant of insertar_por_votos: a candidate goes before those of equal votes.
RECURSIVE insertar_por_votos_antes(_, _)
insertar_por_votos_antes(s, x) ==
    IF s = <<>> THEN <<x>>
    ELSE IF x[2] >= Head(s)[2] THEN <<x>> \o s
    ELSE <<Head(s)>> \o insertar_por_votos_antes(Tail(s), x)

\* One step of the stable sort: x, which came after every element of the
\* sorted s, goes before the first element that `b.1.cmp(&a.1)` orders after
\* it (one of fewer votes) and after those that compare equal.
RECURSIVE insertar_por_votos(_, _)
insertar_por_votos(s, x) ==
    IF s = <<>> THEN <<x>>
    ELSE IF x[2] > Head(s)[2] THEN <<x>> \o s
    ELSE <<Head(s)>> \o insertar_por_votos(Tail(s), x)

\* datos_candidatos.sort_by(|a, b| b.1.cmp(&a.1)): stable, most votes first
RECURSIVE sort_by(_)
sort_by(s) ==
    IF s = <<>> THEN <<>>
    ELSE insertar_por_votos(sort_by(SubSeq(s, 1, Len(s) - 1)), s[Len(s)])

\* The ranked list of reporte_de_resultado_por_eleccion: the sorted
\* candidates, each with the profile of its account.
candidatos_ordenados(respuesta, conocidos) ==
    LET datos_candidatos == sort_by(respuesta.datos) IN
    [i \in 1..Len(datos_candidatos) |->
        LET datos_candidato == datos_candidatos[i]
            datos_usuario == unwrap_or_default(informacion(conocidos, datos_candidato[1]))
        IN <<datos_candidato[1], datos_usuario[1], datos_usuario[2], datos_usuario[3],
             datos_candidato[2]>>]

\* Mutant of reporte_de_resultado_por_eleccion: the tie of the first two is
\* not tested.
reporte_de_resultado_por_eleccion_sin_empate(r, respuesta, conocidos) ==
    IF ~is_some(r.sistema_elecciones) THEN [res |-> SistemaNoSeteado, payload |-> None]
    ELSE IF respuesta.res # Ok THEN [res |-> respuesta.res, payload |-> None]
    ELSE LET candidatos == candidatos_ordenados(respuesta, conocidos) IN
         IF Len(candidatos) = 0 THEN [res |-> Panic, payload |-> None]
         ELSE [res |-> Ok, payload |-> <<Some(candidatos[1]), candidatos>>]

\* reporte_de_resultado_por_eleccion.  `respuesta` is the reply of
\* obtener_candidatos_eleccion_por_id and `conocidos` the accounts
\* obtener_informacion_usuario answers with a profile.  `candidatos[0]` of an empty
\* list is an index out of bounds: the call panics.
reporte_de_resultado_por_eleccion(r, respuesta, conocidos) ==
    IF ~is_some(r.sistema_elecciones) THEN [res |-> SistemaNoSeteado, payload |-> None]
    ELSE IF respuesta.res # Ok THEN [res |-> respuesta.res, payload |-> None]
    ELSE LET candidatos == candidatos_ordenados(respuesta, conocidos) IN
         IF Len(candidatos) >= 2 /\ candidatos[1][5] = candidatos[2][5]
         THEN [res |-> Ok, payload |-> <<None, candidatos>>]
         ELSE IF Len(candidatos) = 0 THEN [res |-> Panic, payload |-> None]
         ELSE [res |-> Ok, payload |-> <<Some(candidatos[1]), candidatos>>]

\* --------------------------------------------------------------- inputs
\* Election and candidate numbers a caller may pass (existing and not).
EleccionIds == 0..(MaxElecciones + 1)
CandidatoIds == 0..(MaxPorTipo + 1)
\* Date strings passed to crear_eleccion: minute 1, minute 2, and a malformed one.
FechasEntrada == {<<1, 1, 1970, 0, 1>>, <<1, 1, 1970, 0, 2>>, <<31, 2, 1970, 0, 0>>}
\* Profiles passed to registrarse: (nombre, apellido, dni).
Perfiles == {<<"nombre", "apellido", "dni">>}

\* Profiles passed to registrarse in the registry's specification.
PerfilesRegistro == Perfiles \cup {<<"otro nombre", "otro apellido", "otro dni">>}

\* -------------------------------------------------------------- actions
\* The storage after a call is the handler's `self`; the clock is the host's.
Guardar(r) ==
    /\ administrador' = r.self.administrador
    /\ generador_reportes' = r.self.generador_reportes
    /\ registro_activado' = r.self.registro_activado
    /\ usuarios' = r.self.usuarios
    /\ usuarios_pendientes' = r.self.usuarios_pendientes
    /\ usuarios_rechazados' = r.self.usuarios_rechazados
    /\ elecciones' = r.self.elecciones
    /\ UNCHANGED <<block_timestamp, reporte, entrada, informe>>

\* A call other than a successful vote leaves the history of votes alone.
Llamada(r) == Guardar(r) /\ UNCHANGED exitos

Init ==
    /\ administrador = Deployer
    /\ generador_reportes = None
    /\ registro_activado = FALSE
    /\ usuarios = <<>>
    /\ usuarios_pendientes = <<>>
    /\ usuarios_rechazados = <<>>
    /\ elecciones = <<>>
    /\ block_timestamp = 0
    /\ exitos = [p \in (1..MaxElecciones) \X Ids |-> 0]
    /\ reporte = Reporte_new(Deployer)
    /\ entrada = None
    /\ informe = None

registrarse(caller, perfil) ==
    Llamada(registrarse_privado(caller, perfil[1], perfil[2], perfil[3]))

procesar_siguiente_usuario_pendiente(caller, aceptar_usuario) ==
    Llamada(procesar_siguiente_usuario_pendiente_privado(caller, aceptar_usuario))

crear_eleccion(caller, fecha_inicial, fecha_final) ==
    /\ Len(elecciones) < MaxElecciones
    /\ Llamada(crear_eleccion_privado(caller, fecha_inicial, fecha_final))

iniciar_votacion(caller, eleccion_id) ==
    Llamada(iniciar_votacion_privado(caller, eleccion_id))

procesar_usuarios_en_una_eleccion(caller, eleccion_id, aceptar_usuario) ==
    Llamada(procesar_usuarios_en_una_eleccion_privado(caller, eleccion_id, aceptar_usuario))

\* Requests of one role in an election: those queued and those admitted.
DeTipo(el, tipo) ==
    Cardinality({i \in 1..Len(el.usuarios_pendientes) : el.usuarios_pendientes[i][2] = tipo})
        + (IF tipo = VOTANTE THEN Len(el.votantes) ELSE Len(el.candidatos))

ingresar_a_eleccion(caller, eleccion_id, tipo) ==
    /\ existe_eleccion(eleccion_id) => DeTipo(elecciones[eleccion_id], tipo) < MaxPorTipo
    /\ Llamada(ingresar_a_eleccion_privado(caller, eleccion_id, tipo))

votar_a_candidato(caller, eleccion_id, candidato_id) ==
    LET r == votar_a_candidato_privado(caller, eleccion_id, candidato_id) IN
    /\ Guardar(r)
    /\ exitos' = IF r.res = Ok
                 THEN [exitos EXCEPT ![<<eleccion_id, caller>>] = @ + 1]
                 ELSE exitos

activar_registro(caller) == Llamada(activar_registro_privado(caller))

desactivar_registro(caller) == Llamada(desactivar_registro_privado(caller))

transferir_administrador(caller, id) == Llamada(transferir_administrador_privado(caller, id))

asignar_generador_reportes(caller, id) ==
    Llamada(asignar_generador_reportes_privado(caller, id))

obtener_resultados(eleccion_id) == Llamada(obtener_resultados_privado(eleccion_id))

obtener_informacion_candidato_eleccion(eleccion_id, candidato_id) ==
    Llamada(obtener_informacion_candidato_eleccion_privado(eleccion_id, candidato_id))

\* A message on &self: it answers and stores nothing.
obtener_informacion_usuario(caller, user_id) ==
    /\ obtener_informacion_usuario_privado(caller, user_id) \in
          {None} \cup {Some(<<usuarios[i].nombre, usuarios[i].apellido, usuarios[i].dni>>) :
                           i \in 1..Len(usuarios)}
    /\ UNCHANGED vars

obtener_votantes_eleccion_por_id(caller, eleccion_id) ==
    Llamada(obtener_votantes_eleccion_por_id_privado(caller, eleccion_id))

obtener_candidatos_eleccion_por_id(caller, eleccion_id) ==
    Llamada(obtener_candidatos_eleccion_por_id_privado(caller, eleccion_id))

\* The host's clock advances between calls.
Tick ==
    /\ block_timestamp < MaxTicks * TickMs
    /\ block_timestamp' = block_timestamp + TickMs
    /\ UNCHANGED <<administrador, generador_reportes, registro_activado, usuarios,
                   usuarios_pendientes, usuarios_rechazados, elecciones, exitos,
                   reporte, entrada, informe>>

\* Spec: the election lifecycle under one administrator (the deployer) with
\* registration, once opened, left open.  desactivar_registro,
\* transferir_administrador and asignar_generador_reportes touch no election
\* and are left to the registry's own specification.
Next ==
    \/ \E caller \in Ids, perfil \in Perfiles : registrarse(caller, perfil)
    \/ \E caller \in Ids, aceptar \in BOOLEAN :
          procesar_siguiente_usuario_pendiente(caller, aceptar)
    \/ \E caller \in Ids, fi \in FechasEntrada, ff \in FechasEntrada :
          crear_eleccion(caller, fi, ff)
    \/ \E caller \in Ids, e \in EleccionIds : iniciar_votacion(caller, e)
    \/ \E caller \in Ids, e \in EleccionIds, aceptar \in BOOLEAN :
          procesar_usuarios_en_una_eleccion(caller, e, aceptar)
    \/ \E caller \in Ids, e \in EleccionIds, tipo \in TIPO_DE_USUARIO :
          ingresar_a_eleccion(caller, e, tipo)
    \/ \E caller \in Ids, e \in EleccionIds, c \in CandidatoIds :
          votar_a_candidato(caller, e, c)
    \/ \E caller \in Ids : activar_registro(caller)
    \/ \E e \in EleccionIds : obtener_resultados(e)
    \/ \E e \in EleccionIds, c \in CandidatoIds : obtener_informacion_candidato_eleccion(e, c)
    \/ Tick

Spec == Init /\ [][Next]_vars

\* SpecRegistro: the registry and the administration of the contract, with the
\* administrator changing hands; elections are created and administered but
\* nobody joins them and the clock stands still.
NextRegistro ==
    \/ \E caller \in Ids, perfil \in PerfilesRegistro : registrarse(caller, perfil)
    \/ \E caller \in Ids, user_id \in Ids : obtener_informacion_usuario(caller, user_id)
    \/ \E caller \in Ids, aceptar \in BOOLEAN :
          procesar_siguiente_usuario_pendiente(caller, aceptar)
    \/ \E caller \in Ids : activar_registro(caller)
    \/ \E caller \in Ids : desactivar_registro(caller)
    \/ \E caller \in Ids, id \in Ids : transferir_administrador(caller, id)
    \/ \E caller \in Ids, id \in Ids : asignar_generador_reportes(caller, id)
    \/ \E caller \in Ids, fi \in FechasEntrada, ff \in FechasEntrada :
          crear_eleccion(caller, fi, ff)
    \/ \E caller \in Ids, e \in EleccionIds : iniciar_votacion(caller, e)
    \/ \E caller \in Ids, e \in EleccionIds, aceptar \in BOOLEAN :
          procesar_usuarios_en_una_eleccion(caller, e, aceptar)

SpecRegistro == Init /\ [][NextRegistro]_vars

\* The registry once the administrator has opened it and admitted two
\* identities, before any election exists.
InitEscrutinio ==
    /\ administrador = Deployer
    /\ generador_reportes = None
    /\ registro_activado = TRUE
    /\ usuarios = [i \in 1..2 |->
                     [id |-> <<"b", "c">>[i], nombre |-> "nombre",
                      apellido |-> "apellido", dni |-> "dni"]]
    /\ usuarios_pendientes = <<>>
    /\ usuarios_rechazados = <<>>
    /\ elecciones = <<>>
    /\ block_timestamp = 0
    /\ exitos = [p \in (1..MaxElecciones) \X Ids |-> 0]
    /\ reporte = Reporte_new(Deployer)
    /\ entrada = None
    /\ informe = None

\* SpecEscrutinio: the elections of an established registry, from their
\* creation to the reading of their lists by the administrator and the
\* report generator; voting starts with the first vote and the cached
\* results are left to Spec.
NextEscrutinio ==
    \/ \E caller \in Ids, fi \in FechasEntrada, ff \in FechasEntrada :
          crear_eleccion(caller, fi, ff)
    \/ \E caller \in Ids, e \in EleccionIds, tipo \in TIPO_DE_USUARIO :
          ingresar_a_eleccion(caller, e, tipo)
    \/ \E caller \in Ids, e \in EleccionIds, aceptar \in BOOLEAN :
          procesar_usuarios_en_una_eleccion(caller, e, aceptar)
    \/ \E caller \in Ids, e \in EleccionIds, c \in CandidatoIds :
          votar_a_candidato(caller, e, c)
    \/ \E caller \in Ids, id \in Ids : asignar_generador_reportes(caller, id)
    \/ \E caller \in Ids, e \in EleccionIds : obtener_votantes_eleccion_por_id(caller, e)
    \/ \E caller \in Ids, e \in EleccionIds : obtener_candidatos_eleccion_por_id(caller, e)
    \/ Tick

SpecEscrutinio == InitEscrutinio /\ [][NextEscrutinio]_vars

\* Requests an election has received and still holds: queued, admitted, rejected.
Solicitudes(el) ==
    Len(el.usuarios_pendientes) + Len(el.votantes) + Len(el.candidatos)
        + Len(el.usuarios_rechazados)

\* ingresar_a_eleccion, bounded by the requests of the election and not per role.
ingresar_a_eleccion_en_cola(caller, eleccion_id, tipo) ==
    /\ existe_eleccion(eleccion_id) => Solicitudes(elecciones[eleccion_id]) < MaxSolicitudes
    /\ Llamada(ingresar_a_eleccion_privado(caller, eleccion_id, tipo))

\* SpecCola: the pending queue of an election before its start, with room for
\* more requests of one role than the candidate number can count.
NextCola ==
    \/ \E caller \in Ids : activar_registro(caller)
    \/ \E caller \in Ids, perfil \in Perfiles : registrarse(caller, perfil)
    \/ \E caller \in Ids, aceptar \in BOOLEAN :
          procesar_siguiente_usuario_pendiente(caller, aceptar)
    \/ \E caller \in Ids, fi \in FechasEntrada, ff \in FechasEntrada :
          crear_eleccion(caller, fi, ff)
    \/ \E caller \in Ids, e \in EleccionIds, tipo \in TIPO_DE_USUARIO :
          ingresar_a_eleccion_en_cola(caller, e, tipo)
    \/ \E caller \in Ids, e \in EleccionIds, aceptar \in BOOLEAN :
          procesar_usuarios_en_una_eleccion(caller, e, aceptar)

SpecCola == Init /\ [][NextCola]_vars

\* The contract a Reporte is pointed at.
Refs == {"sistema_elecciones"}

\* Accounts whose profile the contract pointed at may know.
CuentasReporte == 1..MaxCandidatosReporte

\* The errors obtener_votantes_eleccion_por_id and
\* obtener_candidatos_eleccion_por_id answer with.
ErroresDeAcceso ==
    {[res |-> e, datos |-> <<>>] : e \in {NoPermission, ElectionNotFound, ElectionNotFinished}}

\* Voter lists of at most n voters: (account, voto_emitido) per voter, the
\* accounts all different.
ListasVotantes(n) ==
    UNION {{[i \in 1..k |-> <<i, v[i]>>] : v \in [1..k -> BOOLEAN]} : k \in 0..n}

\* Candidate lists: (account, votos_totales) per candidate in candidate-number
\* order, the accounts all different, in rising or in falling order.
ListasCandidatos ==
    UNION {{[i \in 1..k |-> <<ids[i], vs[i]>>] :
                ids \in {[i \in 1..k |-> i], [i \in 1..k |-> k + 1 - i]},
                vs \in [1..k -> 0..MaxVotosReporte]} : k \in 0..MaxCandidatosReporte}

\* A report message and what the contract pointed at answers during it; for
\* the participation report, also the build of Reporte (with or without
\* overflow checks).
EntradasVotantes ==
    {[mensaje |-> "reporte_de_votantes_por_eleccion", respuesta |-> r, conocidos |-> k] :
        r \in ErroresDeAcceso \cup
                {[res |-> Ok, datos |-> d] : d \in ListasVotantes(MaxCandidatosReporte)},
        k \in SUBSET CuentasReporte}

EntradasParticipacion ==
    {[mensaje |-> "reporte_de_participacion_por_eleccion", respuesta |-> r,
      overflow_checks |-> o] :
        r \in ErroresDeAcceso \cup
                {[res |-> Ok, datos |-> d] : d \in ListasVotantes(MaxVotantesReporte)},
        o \in BOOLEAN}

EntradasResultado ==
    {[mensaje |-> "reporte_de_resultado_por_eleccion", respuesta |-> r, conocidos |-> k] :
        r \in ErroresDeAcceso \cup {[res |-> Ok, datos |-> d] : d \in ListasCandidatos},
        k \in SUBSET CuentasReporte}

\* A freshly deployed Reporte next to a freshly deployed SistemaElecciones.
InitReporte ==
    /\ administrador = Deployer
    /\ generador_reportes = None
    /\ registro_activado = FALSE
    /\ usuarios = <<>>
    /\ usuarios_pendientes = <<>>
    /\ usuarios_rechazados = <<>>
    /\ elecciones = <<>>
    /\ block_timestamp = 0
    /\ exitos = [p \in (1..MaxElecciones) \X Ids |-> 0]
    /\ reporte = Reporte_new(Deployer)
    /\ \/ entrada \in EntradasVotantes
       \/ entrada \in EntradasParticipacion
       \/ entrada \in EntradasResultado
    /\ informe = None

\* A call of Reporte touches the storage of Reporte alone.
GuardarReporte(r, salida) ==
    /\ reporte' = r
    /\ informe' = salida
    /\ UNCHANGED <<administrador, generador_reportes, registro_activado, usuarios,
                   usuarios_pendientes, usuarios_rechazados, elecciones,
                   block_timestamp, exitos, entrada>>

Msg_set_sistema_elecciones(caller, sistema) ==
    GuardarReporte(set_sistema_elecciones(reporte, caller, sistema).self, informe)

Msg_reporte_de_votantes_por_eleccion ==
    /\ entrada.mensaje = "reporte_de_votantes_por_eleccion"
    /\ GuardarReporte(reporte,
          Some(reporte_de_votantes_por_eleccion(reporte, entrada.respuesta,
                                                entrada.conocidos)))

Msg_reporte_de_participacion_por_eleccion ==
    /\ entrada.mensaje = "reporte_de_participacion_por_eleccion"
    /\ GuardarReporte(reporte,
          Some(reporte_de_participacion_por_eleccion(reporte, entrada.respuesta,
                                                     entrada.overflow_checks)))

Msg_reporte_de_resultado_por_eleccion ==
    /\ entrada.mensaje = "reporte_de_resultado_por_eleccion"
    /\ GuardarReporte(reporte,
          Some(reporte_de_resultado_por_eleccion(reporte, entrada.respuesta,
                                                 entrada.conocidos)))

\* SpecReporte: the messages of Reporte, applied to the replies the contract
\* it is pointed at can give: the errors of the two list accessors, and the
\* lists of a closed election.
NextReporte ==
    \/ \E caller \in Ids, sistema \in Refs : Msg_set_sistema_elecciones(caller, sistema)
    \/ Msg_reporte_de_votantes_por_eleccion
    \/ Msg_reporte_de_participacion_por_eleccion
    \/ Msg_reporte_de_resultado_por_eleccion

SpecReporte == InitReporte /\ [][NextReporte]_vars

\* ================================================================ claims
\* Vocabulary of the claims, stated on the storage and not through the handlers.
Elecs == 1..Len(elecciones)
Registrado(u) == u \in {usuarios[i].id : i \in 1..Len(usuarios)}
EsVotante(e, u) == \E i \in 1..Len(elecciones[e].votantes) : elecciones[e].votantes[i].id = u
\* hasVoted of the account's record (its first one, the one the election reads)
HaVotado(e, u) ==
    \E i \in 1..Len(elecciones[e].votantes) :
        /\ elecciones[e].votantes[i].id = u
        /\ elecciones[e].votantes[i].voto_emitido
        /\ \A j \in 1..(i - 1) : elecciones[e].votantes[j].id # u
EsCandidato(e, c) == c \in 1..Len(elecciones[e].candidatos)
\* totalVotes of every candidate of every election of a storage
Tallies(st) ==
    [e \in 1..Len(st.elecciones) |->
        [i \in 1..Len(st.elecciones[e].candidatos) |->
            st.elecciones[e].candidatos[i].votos_totales]]
Votar(u, e, c) == votar_a_candidato_privado(u, e, c)

\* C1 (original statement): once a castVote by an identity has succeeded in an
\* election, every later castVote by it there fails with AlreadyVoted and
\* leaves every totalVotes unchanged.
C1_SiempreAlreadyVoted ==
    \A e \in Elecs, u \in Ids, c \in CandidatoIds :
        exitos[<<e, u>>] >= 1 =>
            /\ Votar(u, e, c).res = AlreadyVoted
            /\ Tallies(Votar(u, e, c).self) = Tallies(Self)

\* C1 (amended): at most one castVote by an identity succeeds in an election;
\* every later castVote by it there fails and leaves every totalVotes
\* unchanged, and the failure is AlreadyVoted whenever the election has not
\* ended (now <= endTime) and the candidate number exists.
C1_UnVotoPorIdentidad ==
    \A e \in Elecs, u \in Ids :
        /\ exitos[<<e, u>>] <= 1
        /\ exitos[<<e, u>>] = 1 =>
              \A c \in CandidatoIds :
                 /\ Votar(u, e, c).res # Ok
                 /\ Tallies(Votar(u, e, c).self) = Tallies(Self)
                 /\ (block_timestamp <= elecciones[e].fecha_final /\ EsCandidato(e, c))
                        => Votar(u, e, c).res = AlreadyVoted

\* C1 witness: a vote was counted and its caller, asking again, gets AlreadyVoted.
C1_Witness ==
    \E e \in Elecs, u \in Ids, c \in CandidatoIds :
        exitos[<<e, u>>] = 1 /\ Votar(u, e, c).res = AlreadyVoted

\* The checks of castVote before the increment all pass for caller u,
\* election e and candidate c.
PuedeVotar(u, e, c) ==
    /\ Registrado(u)
    /\ e \in Elecs
    /\ elecciones[e].votacion_iniciada \/ block_timestamp >= elecciones[e].fecha_inicio
    /\ block_timestamp <= elecciones[e].fecha_final
    /\ EsCandidato(e, c)
    /\ EsVotante(e, u)
    /\ ~HaVotado(e, u)

\* C2: a castVote that passes every check and targets a candidate whose
\* totalVotes is at the counter's maximum fails with Overflow; after it the
\* caller's hasVoted is false and every totalVotes is unchanged, so the same
\* caller's vote for a candidate below the maximum is still accepted.
C2_OverflowDeshaceElVoto ==
    \A u \in Ids, e \in Elecs, c \in CandidatoIds :
        (PuedeVotar(u, e, c) /\ elecciones[e].candidatos[c].votos_totales = MaxVotos) =>
            /\ Votar(u, e, c).res = Overflow
            /\ Votar(u, e, c).self.elecciones[e].votantes = elecciones[e].votantes
            /\ Tallies(Votar(u, e, c).self) = Tallies(Self)
            /\ Votar(u, e, c).self =
                  [Self EXCEPT !.elecciones[e].votacion_iniciada = TRUE]
            /\ \A c2 \in CandidatoIds :
                  (EsCandidato(e, c2) /\ elecciones[e].candidatos[c2].votos_totales < MaxVotos)
                     => Votar(u, e, c2).res = Ok

\* C2 witness: a voter who has not voted faces a candidate at the maximum while
\* another candidate is below it.
C2_Witness ==
    \E u \in Ids, e \in Elecs, c \in CandidatoIds, c2 \in CandidatoIds :
        /\ PuedeVotar(u, e, c) /\ elecciones[e].candidatos[c].votos_totales = MaxVotos
        /\ EsCandidato(e, c2) /\ elecciones[e].candidatos[c2].votos_totales < MaxVotos
        /\ \E v \in Ids : exitos[<<e, v>>] = 1

\* C3: once getResults has succeeded for an election its cachedResults is never
\* overwritten or cleared, and every later successful getResults returns that
\* same payload, whatever happened in between.
C3_ResultadosInmutables ==
    /\ [](\A e \in Elecs :
            is_some(elecciones[e].resultados) =>
               (obtener_resultados_privado(e).res = Ok =>
                   /\ obtener_resultados_privado(e).payload = elecciones[e].resultados
                   /\ obtener_resultados_privado(e).self = Self))
    /\ [][\A e \in Elecs :
            is_some(elecciones[e].resultados) =>
               elecciones'[e].resultados = elecciones[e].resultados]_vars

\* C3 witness: results are cached and the election's lists have moved on since
\* (the cache no longer matches what a fresh count would give).
C3_Witness ==
    \E e \in Elecs :
        /\ is_some(elecciones[e].resultados)
        /\ unwrap(elecciones[e].resultados).votos_totales # Len(elecciones[e].votantes)

\* C4 (the claim): castVote succeeds only while startTime <= now < endTime.
C4_VotoSoloEnVentana ==
    \A u \in Ids, e \in Elecs, c \in CandidatoIds :
        Votar(u, e, c).res = Ok =>
            /\ elecciones[e].fecha_inicio <= block_timestamp
            /\ block_timestamp < elecciones[e].fecha_final

\* C5 (the claim): a castVote that returns an error leaves the whole storage as
\* it was, the election's votingStarted flag included.
C5_ErrorSinEfecto ==
    \A u \in Ids, e \in EleccionIds, c \in CandidatoIds :
        Votar(u, e, c).res # Ok => Votar(u, e, c).self = Self

\* C6: getResults fails with ElectionNotFound on an unknown id; on an existing
\* election it fails with ElectionNotFinished, caching nothing, while
\* now < endTime, and succeeds once now >= endTime.
C6_ResultadosSegunReloj ==
    \A e \in EleccionIds :
        LET r == obtener_resultados_privado(e) IN
        /\ e \notin Elecs => (r.res = ElectionNotFound /\ r.self = Self)
        /\ (e \in Elecs /\ block_timestamp < elecciones[e].fecha_final) =>
              (r.res = ElectionNotFinished /\ r.payload = None /\ r.self = Self)
        /\ (e \in Elecs /\ block_timestamp >= elecciones[e].fecha_final) =>
              (r.res = Ok /\ is_some(r.payload))

\* C6 witness: results were published at the very instant endTime.
C6_Witness ==
    \E e \in Elecs :
        /\ block_timestamp = elecciones[e].fecha_final
        /\ is_some(elecciones[e].resultados)

\* What the results of an election must be, from its lists: the number of voter
\* records, the number of those with hasVoted, and (ownerId, totalVotes) per
\* candidate in candidate-number order.
EsResultadoDe(res, el) ==
    /\ res.votos_totales = Len(el.votantes)
    /\ res.votos_realizados =
          Cardinality({i \in 1..Len(el.votantes) : el.votantes[i].voto_emitido})
    /\ DOMAIN res.votos_candidatos = 1..Len(el.candidatos)
    /\ \A i \in 1..Len(el.candidatos) :
          /\ el.candidatos[i].candidato_id = i
          /\ res.votos_candidatos[i] = <<el.candidatos[i].id, el.candidatos[i].votos_totales>>

\* C7: the first successful getResults of an election returns, and caches, the
\* totals read from the state at that call.
C7_PrimerosResultados ==
    /\ [](\A e \in Elecs :
            (~is_some(elecciones[e].resultados) /\ obtener_resultados_privado(e).res = Ok) =>
                /\ EsResultadoDe(unwrap(obtener_resultados_privado(e).payload), elecciones[e])
                /\ obtener_resultados_privado(e).self.elecciones[e].resultados
                      = obtener_resultados_privado(e).payload)
    /\ [][\A e \in Elecs :
            (~is_some(elecciones[e].resultados) /\ is_some(elecciones'[e].resultados)) =>
                EsResultadoDe(unwrap(elecciones'[e].resultados), elecciones[e])]_vars

\* C7 witness: cached results of an election where one of two voters voted.
C7_Witness ==
    \E e \in Elecs :
        /\ is_some(elecciones[e].resultados)
        /\ unwrap(elecciones[e].resultados).votos_realizados = 1
        /\ unwrap(elecciones[e].resultados).votos_totales = 2
        /\ Len(unwrap(elecciones[e].resultados).votos_candidatos) >= 1

\* The result castVote must report: the first failing check in the claim's order.
VotoEsperado(u, e, c) ==
    IF ~Registrado(u) THEN NotRegistered
    ELSE IF e \notin Elecs THEN ElectionNotFound
    ELSE IF ~elecciones[e].votacion_iniciada /\ block_timestamp < elecciones[e].fecha_inicio
         THEN TooEarly
    ELSE IF block_timestamp > elecciones[e].fecha_final THEN VotingEnded
    ELSE IF ~EsCandidato(e, c) THEN CandidateNotFound
    ELSE IF ~EsVotante(e, u) THEN NotRegisteredVoter
    ELSE IF HaVotado(e, u) THEN AlreadyVoted
    ELSE IF elecciones[e].candidatos[c].votos_totales + 1 > MaxVotos THEN Overflow
    ELSE Ok

\* C8: castVote reports the first failing check in the order NotRegistered,
\* ElectionNotFound, TooEarly, VotingEnded, CandidateNotFound,
\* NotRegisteredVoter, AlreadyVoted, and succeeds exactly when none fails and
\* the increment does not overflow.
C8_OrdenDeChequeosVoto ==
    \A u \in Ids, e \in EleccionIds, c \in CandidatoIds :
        Votar(u, e, c).res = VotoEsperado(u, e, c)

\* C8 witness: a voter whose vote was counted asks again after endTime with a
\* candidate number that does not exist: three checks fail at once.
C8_Witness ==
    \E u \in Ids, e \in Elecs, c \in CandidatoIds :
        /\ exitos[<<e, u>>] = 1
        /\ block_timestamp > elecciones[e].fecha_final
        /\ ~EsCandidato(e, c)

\* The result startVoting must report to the administrator.
InicioEsperado(e) ==
    IF e \notin Elecs THEN ElectionNotFound
    ELSE IF block_timestamp > elecciones[e].fecha_final THEN VotingEnded
    ELSE IF elecciones[e].votacion_iniciada THEN AlreadyStarted
    ELSE IF block_timestamp < elecciones[e].fecha_inicio THEN TooEarly
    ELSE Ok

\* C9: startVoting by the administrator reports the first failing check in the
\* order ElectionNotFound, VotingEnded, AlreadyStarted, TooEarly and then
\* changes nothing; otherwise it sets votingStarted and nothing else.
C9_IniciarVotacion ==
    \A e \in EleccionIds :
        LET r == iniciar_votacion_privado(administrador, e) IN
        /\ r.res = InicioEsperado(e)
        /\ r.res # Ok => r.self = Self
        /\ r.res = Ok => r.self = [Self EXCEPT !.elecciones[e].votacion_iniciada = TRUE]

\* C9 witness: an election already started whose end has passed (both
\* VotingEnded and AlreadyStarted apply), nobody having voted in it.
C9_Witness ==
    \E e \in Elecs :
        /\ elecciones[e].votacion_iniciada
        /\ block_timestamp > elecciones[e].fecha_final
        /\ \A u \in Ids : exitos[<<e, u>>] = 0

\* C10: joinElection by a registered caller who is not pending in the election
\* fails with VotingAlreadyStarted whenever votingStarted is true, at every
\* clock value, and queues nothing.
C10_IngresoTrasInicio ==
    \A u \in Ids, e \in Elecs, tipo \in TIPO_DE_USUARIO :
        ( /\ Registrado(u)
          /\ ~(\E i \in 1..Len(elecciones[e].usuarios_pendientes) :
                  elecciones[e].usuarios_pendientes[i][1] = u)
          /\ elecciones[e].votacion_iniciada ) =>
            /\ ingresar_a_eleccion_privado(u, e, tipo).res = VotingAlreadyStarted
            /\ ingresar_a_eleccion_privado(u, e, tipo).self = Self

\* C10 witness: voting was started at the very instant startTime, where the
\* clock alone would still admit the request, and a registered account that
\* is not pending exists.
C10_Witness ==
    \E u \in Ids, e \in Elecs :
        /\ Registrado(u)
        /\ ~contiene_usuario_pendiente(elecciones[e], u)
        /\ elecciones[e].votacion_iniciada
        /\ block_timestamp = elecciones[e].fecha_inicio
        /\ block_timestamp <= elecciones[e].fecha_final

\* joinElection, and the caller's standing in an election.
Ingresar(u, e, tipo) == ingresar_a_eleccion_privado(u, e, tipo)
Pendiente(e, u) ==
    \E i \in 1..Len(elecciones[e].usuarios_pendientes) :
        elecciones[e].usuarios_pendientes[i][1] = u
Rechazado(e, u) ==
    \E i \in 1..Len(elecciones[e].usuarios_rechazados) :
        elecciones[e].usuarios_rechazados[i] = u

\* C11 (original statement): joinElection by a registered caller who is not
\* pending, on an election whose votingStarted is false, fails with
\* ElectionEnded whenever now > endTime.
C11_SiempreElectionEnded ==
    \A u \in Ids, e \in Elecs, tipo \in TIPO_DE_USUARIO :
        ( /\ Registrado(u) /\ ~Pendiente(e, u)
          /\ ~elecciones[e].votacion_iniciada
          /\ block_timestamp > elecciones[e].fecha_final ) =>
            Ingresar(u, e, tipo).res = ElectionEnded

\* C11 (amended): such a joinElection with now > endTime always fails and
\* queues nothing; the error is VotingAlreadyStarted when now > startTime and
\* ElectionEnded only when now <= startTime (an election whose endTime is
\* before its startTime).
C11_IngresoTrasFinal ==
    \A u \in Ids, e \in Elecs, tipo \in TIPO_DE_USUARIO :
        ( /\ Registrado(u) /\ ~Pendiente(e, u)
          /\ ~elecciones[e].votacion_iniciada
          /\ block_timestamp > elecciones[e].fecha_final ) =>
            /\ Ingresar(u, e, tipo).self = Self
            /\ Ingresar(u, e, tipo).res =
                  IF block_timestamp > elecciones[e].fecha_inicio
                  THEN VotingAlreadyStarted ELSE ElectionEnded

\* C11 witness: a registered caller who is not pending faces an election that
\* never started and whose endTime has passed while its startTime has not.
C11_Witness ==
    \E u \in Ids, e \in Elecs :
        /\ Registrado(u) /\ ~Pendiente(e, u)
        /\ ~elecciones[e].votacion_iniciada
        /\ block_timestamp > elecciones[e].fecha_final
        /\ block_timestamp <= elecciones[e].fecha_inicio
        /\ Ingresar(u, e, VOTANTE).res = ElectionEnded

\* C12 (the claim): whenever joinElection succeeds, votingStarted is false,
\* now < startTime strictly and now <= endTime.
C12_IngresoAntesDelInicio ==
    \A u \in Ids, e \in Elecs, tipo \in TIPO_DE_USUARIO :
        Ingresar(u, e, tipo).res = Ok =>
            /\ ~elecciones[e].votacion_iniciada
            /\ block_timestamp < elecciones[e].fecha_inicio
            /\ block_timestamp <= elecciones[e].fecha_final

\* Entries of an identity in an election's pending queue, voters and candidates.
Apariciones(el, u) ==
    Cardinality({i \in 1..Len(el.usuarios_pendientes) : el.usuarios_pendientes[i][1] = u})
      + Cardinality({i \in 1..Len(el.votantes) : el.votantes[i].id = u})
      + Cardinality({i \in 1..Len(el.candidatos) : el.candidatos[i].id = u})

Revisar(aceptar) == procesar_siguiente_usuario_pendiente_privado(administrador, aceptar)
RevisarEn(e, aceptar) == procesar_usuarios_en_una_eleccion_privado(administrador, e, aceptar)
\* A queue after a step: untouched, its oldest request removed, or one
\* request added at its tail.
PasoDeCola(antes, despues) ==
    \/ despues = antes
    \/ antes # <<>> /\ despues = Tail(antes)
    \/ Len(despues) = Len(antes) + 1 /\ SubSeq(despues, 1, Len(antes)) = antes

\* C14: the global pending queue and each election's pending queue are FIFO:
\* a successful review removes exactly the oldest request and disposes of that
\* one, and a queue otherwise changes only by a request added at its tail.
C14_ColasFIFO ==
    /\ [](\A aceptar \in BOOLEAN :
            Revisar(aceptar).res = Ok =>
               /\ usuarios_pendientes # <<>>
               /\ Revisar(aceptar).self.usuarios_pendientes = Tail(usuarios_pendientes)
               /\ aceptar => Revisar(aceptar).self.usuarios
                                 = Append(usuarios, Head(usuarios_pendientes))
               /\ ~aceptar => Revisar(aceptar).self.usuarios_rechazados
                                 = Append(usuarios_rechazados, Head(usuarios_pendientes).id))
    /\ [](\A e \in Elecs, aceptar \in BOOLEAN :
            RevisarEn(e, aceptar).res = Ok =>
               LET el == elecciones[e]
                   el2 == RevisarEn(e, aceptar).self.elecciones[e]
               IN /\ el.usuarios_pendientes # <<>>
                  /\ el2.usuarios_pendientes = Tail(el.usuarios_pendientes)
                  /\ (aceptar /\ Head(el.usuarios_pendientes)[2] = VOTANTE) =>
                        el2.votantes[Len(el2.votantes)].id = Head(el.usuarios_pendientes)[1]
                  /\ (aceptar /\ Head(el.usuarios_pendientes)[2] = CANDIDATO) =>
                        el2.candidatos[Len(el2.candidatos)].id = Head(el.usuarios_pendientes)[1]
                  /\ ~aceptar =>
                        el2.usuarios_rechazados
                           = Append(el.usuarios_rechazados, Head(el.usuarios_pendientes)[1]))
    /\ [][/\ PasoDeCola(usuarios_pendientes, usuarios_pendientes')
          /\ \A e \in Elecs :
                PasoDeCola(elecciones[e].usuarios_pendientes,
                           elecciones'[e].usuarios_pendientes)]_vars

\* C14 witness: an election's queue holds the requests of two identities, one
\* behind the other, while an earlier request was already reviewed, and the
\* next review succeeds.
C14_Witness ==
    /\ \E e \in Elecs :
          /\ Len(elecciones[e].usuarios_pendientes) = 2
          /\ elecciones[e].usuarios_pendientes[1][1] # elecciones[e].usuarios_pendientes[2][1]
          /\ Len(elecciones[e].votantes) + Len(elecciones[e].candidatos)
                + Len(elecciones[e].usuarios_rechazados) >= 1
          /\ RevisarEn(e, TRUE).res = Ok

\* C15 (the claim): reviewNextElectionPending on an empty queue fails with
\* NoPendingUsers and changes nothing; otherwise the head request goes to
\* exactly one of voters (hasVoted false), candidates (totalVotes 0) and the
\* rejected set, the other two being unchanged.
C15_RevisionEnEleccion ==
    \A e \in Elecs, aceptar \in BOOLEAN :
        LET el == elecciones[e]
            r == RevisarEn(e, aceptar)
            el2 == r.self.elecciones[e]
        IN IF el.usuarios_pendientes = <<>>
           THEN r.res = NoPendingUsers /\ r.self = Self
           ELSE LET id == Head(el.usuarios_pendientes)[1]
                    tipo == Head(el.usuarios_pendientes)[2]
                IN /\ el2.usuarios_pendientes = Tail(el.usuarios_pendientes)
                   /\ el2.votantes =
                         IF aceptar /\ tipo = VOTANTE
                         THEN Append(el.votantes, [id |-> id, voto_emitido |-> FALSE])
                         ELSE el.votantes
                   /\ el2.candidatos =
                         IF aceptar /\ tipo = CANDIDATO
                         THEN Append(el.candidatos,
                                     [id |-> id, candidato_id |-> Len(el.candidatos) + 1,
                                      votos_totales |-> 0])
                         ELSE el.candidatos
                   /\ el2.usuarios_rechazados =
                         IF ~aceptar THEN Append(el.usuarios_rechazados, id)
                         ELSE el.usuarios_rechazados

\* Owner and number of each candidate of an election, in list order.
Numeracion(el) ==
    [i \in 1..Len(el.candidatos) |-> <<el.candidatos[i].id, el.candidatos[i].candidato_id>>]

\* C16: in every state the candidate at position i of an election's list has
\* candidateNumber i, and a step leaves the owners and numbers of the existing
\* candidates as they are, adding at most one candidate, at the end.
C16_NumeracionDeCandidatos ==
    /\ [](\A e \in Elecs : \A i \in 1..Len(elecciones[e].candidatos) :
            elecciones[e].candidatos[i].candidato_id = i)
    /\ [][\A e \in Elecs :
            /\ Len(elecciones'[e].candidatos) \in
                  {Len(elecciones[e].candidatos), Len(elecciones[e].candidatos) + 1}
            /\ SubSeq(Numeracion(elecciones'[e]), 1, Len(elecciones[e].candidatos))
                  = Numeracion(elecciones[e])]_vars

\* C16 witness: two candidates of different owners admitted in an election
\* that also admitted a voter.
C16_Witness ==
    \E e \in Elecs :
        /\ Len(elecciones[e].candidatos) = 2
        /\ elecciones[e].candidatos[1].id # elecciones[e].candidatos[2].id
        /\ Len(elecciones[e].votantes) >= 1

\* The registry's three collections, as sets of identities.
IdsPendientes == {usuarios_pendientes[i].id : i \in 1..Len(usuarios_pendientes)}
IdsRegistrados == {usuarios[i].id : i \in 1..Len(usuarios)}
IdsRechazados == {usuarios_rechazados[i] : i \in 1..Len(usuarios_rechazados)}
Registrarse(u, perfil) == registrarse_privado(u, perfil[1], perfil[2], perfil[3])

\* The result requestRegistration must report: the first failing check.
RegistroEsperado(u) ==
    IF ~registro_activado THEN RegistrationClosed
    ELSE IF u = administrador THEN IsAdministrator
    ELSE IF u \in IdsRechazados THEN AlreadyRejected
    ELSE IF u \in IdsRegistrados THEN AlreadyRegistered
    ELSE IF u \in IdsPendientes THEN AlreadyPending
    ELSE Ok

\* C17: requestRegistration reports the first failing check in the order
\* RegistrationClosed, IsAdministrator, AlreadyRejected, AlreadyRegistered,
\* AlreadyPending and then changes nothing; when none fails it appends the
\* caller's profile at the tail of the global pending queue, and only that.
C17_OrdenDeChequeosRegistro ==
    \A u \in Ids, perfil \in Perfiles :
        LET r == Registrarse(u, perfil) IN
        /\ r.res = RegistroEsperado(u)
        /\ r.res # Ok => r.self = Self
        /\ r.res = Ok =>
              r.self = [Self EXCEPT !.usuarios_pendientes =
                          Append(usuarios_pendientes,
                                 [id |-> u, nombre |-> perfil[1],
                                  apellido |-> perfil[2], dni |-> perfil[3]])]

\* C17 witness: with registration open, the administrator is a registered
\* user (two checks fail at once) and another identity's request is queued.
C17_Witness ==
    /\ registro_activado
    /\ administrador \in IdsRegistrados
    /\ usuarios_pendientes # <<>>

\* C18: the global pending queue, the registered set and the rejected set are
\* pairwise disjoint and none holds an identity twice.
C18_RegistroDisjunto ==
    /\ IdsPendientes \cap IdsRegistrados = {}
    /\ IdsPendientes \cap IdsRechazados = {}
    /\ IdsRegistrados \cap IdsRechazados = {}
    /\ Cardinality(IdsPendientes) = Len(usuarios_pendientes)
    /\ Cardinality(IdsRegistrados) = Len(usuarios)
    /\ Cardinality(IdsRechazados) = Len(usuarios_rechazados)

\* C18 witness: one identity pending, one registered, one rejected, with
\* registration open.
C18_Witness ==
    /\ registro_activado
    /\ Len(usuarios_pendientes) = 1 /\ Len(usuarios) = 1 /\ Len(usuarios_rechazados) = 1

\* C19: registration starts disabled; enableRegistration by the administrator
\* succeeds exactly when the flag is false and disableRegistration exactly
\* when it is true, the other case failing with AlreadyInState and leaving
\* the flag; requestRegistration fails with RegistrationClosed whenever the
\* flag is false.
C19_BanderaDeRegistro ==
    /\ registro_activado = FALSE
    /\ [](LET act == activar_registro_privado(administrador)
              des == desactivar_registro_privado(administrador)
          IN /\ act.res = IF registro_activado THEN AlreadyInState ELSE Ok
             /\ act.self = [Self EXCEPT !.registro_activado = TRUE]
             /\ des.res = IF registro_activado THEN Ok ELSE AlreadyInState
             /\ des.self = [Self EXCEPT !.registro_activado = FALSE]
             /\ ~registro_activado =>
                   \A u \in Ids, perfil \in Perfiles :
                      /\ Registrarse(u, perfil).res = RegistrationClosed
                      /\ Registrarse(u, perfil).self = Self)

\* C19 witness: registration is disabled again after a request was queued.
C19_Witness ==
    /\ ~registro_activado
    /\ usuarios_pendientes # <<>>

\* C20: each admin-only operation called by an identity other than the current
\* administrator fails with NotAdministrator, whatever its other arguments
\* and whatever other check would fail, and leaves the storage unchanged.
C20_SoloAdministrador ==
    \A caller \in Ids \ {administrador} :
        /\ \A aceptar \in BOOLEAN :
              /\ procesar_siguiente_usuario_pendiente_privado(caller, aceptar)
                    = [res |-> NotAdministrator, self |-> Self]
              /\ \A e \in EleccionIds :
                    procesar_usuarios_en_una_eleccion_privado(caller, e, aceptar)
                       = [res |-> NotAdministrator, self |-> Self]
        /\ \A fi \in FechasEntrada, ff \in FechasEntrada :
              crear_eleccion_privado(caller, fi, ff)
                 = [res |-> NotAdministrator, self |-> Self]
        /\ \A e \in EleccionIds :
              iniciar_votacion_privado(caller, e) = [res |-> NotAdministrator, self |-> Self]
        /\ activar_registro_privado(caller) = [res |-> NotAdministrator, self |-> Self]
        /\ desactivar_registro_privado(caller) = [res |-> NotAdministrator, self |-> Self]
        /\ \A id \in Ids :
              /\ transferir_administrador_privado(caller, id)
                    = [res |-> NotAdministrator, self |-> Self]
              /\ asignar_generador_reportes_privado(caller, id)
                    = [res |-> NotAdministrator, self |-> Self]

\* C20 witness: the administrator role was transferred, so the deployer is
\* now refused, in a state where the operations would otherwise act: a
\* request is queued, registration is open and an election exists.
C20_Witness ==
    /\ administrador # Deployer
    /\ registro_activado
    /\ usuarios_pendientes # <<>>
    /\ Len(elecciones) >= 1

\* The admin check of the eight admin-only operations refuses the caller, on
\* every argument.
RechazadoComoAdministrador(caller) ==
    /\ activar_registro_privado(caller).res = NotAdministrator
    /\ desactivar_registro_privado(caller).res = NotAdministrator
    /\ \A aceptar \in BOOLEAN :
          /\ procesar_siguiente_usuario_pendiente_privado(caller, aceptar).res
                = NotAdministrator
          /\ \A e \in EleccionIds :
                procesar_usuarios_en_una_eleccion_privado(caller, e, aceptar).res
                   = NotAdministrator
    /\ \A e \in EleccionIds : iniciar_votacion_privado(caller, e).res = NotAdministrator
    /\ \A fi \in FechasEntrada, ff \in FechasEntrada :
          crear_eleccion_privado(caller, fi, ff).res = NotAdministrator
    /\ \A id \in Ids :
          /\ transferir_administrador_privado(caller, id).res = NotAdministrator
          /\ asignar_generador_reportes_privado(caller, id).res = NotAdministrator

\* The admin check of the eight admin-only operations lets the caller through.
AdmitidoComoAdministrador(caller) ==
    /\ activar_registro_privado(caller).res # NotAdministrator
    /\ desactivar_registro_privado(caller).res # NotAdministrator
    /\ \A aceptar \in BOOLEAN :
          /\ procesar_siguiente_usuario_pendiente_privado(caller, aceptar).res
                # NotAdministrator
          /\ \A e \in EleccionIds :
                procesar_usuarios_en_una_eleccion_privado(caller, e, aceptar).res
                   # NotAdministrator
    /\ \A e \in EleccionIds : iniciar_votacion_privado(caller, e).res # NotAdministrator
    /\ \A fi \in FechasEntrada, ff \in FechasEntrada :
          crear_eleccion_privado(caller, fi, ff).res # NotAdministrator
    /\ \A id \in Ids :
          /\ transferir_administrador_privado(caller, id).res = Ok
          /\ asignar_generador_reportes_privado(caller, id).res = Ok

\* C21: transferAdministrator(id) by the administrator succeeds and makes id,
\* and nothing else, the administrator; by anyone else it fails and changes
\* nothing.  After a step that moved the role, the former administrator is
\* refused by every admin-only operation and the new one passes their check.
C21_TransferirAdministrador ==
    /\ [](\A caller \in Ids, id \in Ids :
            transferir_administrador_privado(caller, id) =
               IF caller = administrador
               THEN [res |-> Ok, self |-> [Self EXCEPT !.administrador = id]]
               ELSE [res |-> NotAdministrator, self |-> Self])
    /\ [][\A anterior \in Ids, id \in Ids :
            (anterior = administrador /\ id = administrador' /\ id # anterior) =>
               /\ RechazadoComoAdministrador(anterior)'
               /\ AdmitidoComoAdministrador(id)']_vars

\* C21 witness: the role has left the deployer, who has since asked to be
\* registered as any other identity does.
C21_Witness ==
    /\ administrador # Deployer
    /\ Deployer \in IdsPendientes \cup IdsRegistrados \cup IdsRechazados

\* The caller holds one of the two roles that may read profiles and tallies.
Autorizado(caller) == caller = administrador \/ generador_reportes = Some(caller)

AccesoEsperado(caller, e) ==
    IF ~Autorizado(caller) THEN NoPermission
    ELSE IF e \notin Elecs THEN ElectionNotFound
    ELSE IF block_timestamp < elecciones[e].fecha_final THEN ElectionNotFinished
    ELSE Ok

RecienCreada(el, id) ==
    /\ el.id = id
    /\ el.candidatos = <<>> /\ el.votantes = <<>>
    /\ el.usuarios_pendientes = <<>> /\ el.usuarios_rechazados = <<>>
    /\ el.votacion_iniciada = FALSE
    /\ el.resultados = None

\* C23: the election stored at position i has id i; a successful
\* createElection appends one election, with id = count before + 1 and in the
\* initial state, and touches nothing else; no step removes or renumbers an
\* election.
C23_EleccionesNumeradas ==
    /\ [](\A e \in Elecs : elecciones[e].id = e)
    /\ [](\A fi \in FechasEntrada, ff \in FechasEntrada :
            LET r == crear_eleccion_privado(administrador, fi, ff) IN
            r.res = Ok =>
               /\ Len(r.self.elecciones) = Len(elecciones) + 1
               /\ SubSeq(r.self.elecciones, 1, Len(elecciones)) = elecciones
               /\ RecienCreada(r.self.elecciones[Len(elecciones) + 1], Len(elecciones) + 1)
               /\ r.self = [Self EXCEPT !.elecciones = r.self.elecciones])
    /\ [][/\ Len(elecciones') \in {Len(elecciones), Len(elecciones) + 1}
          /\ \A e \in Elecs : elecciones'[e].id = elecciones[e].id
          /\ Len(elecciones') = Len(elecciones) + 1 =>
                RecienCreada(elecciones'[Len(elecciones')], Len(elecciones) + 1)]_vars

\* C23 witness: an election that has since admitted a voter and a candidate,
\* started and published its results, after which a further createElection
\* would still succeed.
C23_Witness ==
    \E e \in Elecs :
        /\ Len(elecciones[e].votantes) >= 1 /\ Len(elecciones[e].candidatos) >= 1
        /\ elecciones[e].votacion_iniciada
        /\ is_some(elecciones[e].resultados)
        /\ \E fi \in FechasEntrada, ff \in FechasEntrada :
              crear_eleccion_privado(administrador, fi, ff).res = Ok

\* totalVotes of candidate i of election e, now.
Votos(e, i) == elecciones[e].candidatos[i].votos_totales

\* C30: a successful castVote raises the totalVotes of the addressed candidate
\* of the addressed election by exactly 1 and leaves every other tally; a
\* failed one leaves them all; and over any step no tally decreases, at most
\* one changes, and one changes exactly when a castVote succeeded.
C30_ConteoMonotono ==
    /\ [](\A u \in Ids, e \in EleccionIds, c \in CandidatoIds :
            Tallies(Votar(u, e, c).self) =
               IF Votar(u, e, c).res = Ok
               THEN [Tallies(Self) EXCEPT ![e][c] = @ + 1]
               ELSE Tallies(Self))
    /\ [][/\ \A e \in Elecs : \A i \in 1..Len(elecciones[e].candidatos) :
                /\ Votos(e, i)' \in {Votos(e, i), Votos(e, i) + 1}
                /\ Votos(e, i)' # Votos(e, i) =>
                      /\ \E u \in Ids : exitos'[<<e, u>>] = exitos[<<e, u>>] + 1
                      /\ \A e2 \in Elecs : \A j \in 1..Len(elecciones[e2].candidatos) :
                            <<e2, j>> # <<e, i>> => Votos(e2, j)' = Votos(e2, j)
          /\ exitos' # exitos =>
                \E e \in Elecs : \E i \in 1..Len(elecciones[e].candidatos) :
                   Votos(e, i)' = Votos(e, i) + 1]_vars

\* C30 witness: of two candidates of an election one has received a vote and
\* the other none, and a voter who has not voted yet remains.
C30_Witness ==
    \E e \in Elecs, u \in Ids :
        /\ Len(elecciones[e].candidatos) = 2
        /\ {Votos(e, 1), Votos(e, 2)} = {0, 1}
        /\ EsVotante(e, u) /\ ~HaVotado(e, u)

\* Vocabulary of the report claims.  The value a report message returned,
\* when that message was called and the call reached the contract Reporte is
\* pointed at with the election closed (the list accessor answered Ok).
Reportado(m) ==
    /\ entrada # None
    /\ entrada.mensaje = m
    /\ entrada.respuesta.res = Ok
    /\ is_some(informe)
    /\ unwrap(informe).res # SistemaNoSeteado
Participacion == "reporte_de_participacion_por_eleccion"
Resultado == "reporte_de_resultado_por_eleccion"
\* totalVoters and effectiveVotes of the closed election
TotalVoters == Len(entrada.respuesta.datos)
EffectiveVotes ==
    Cardinality({i \in 1..Len(entrada.respuesta.datos) : entrada.respuesta.datos[i][2]})
\* The error the participation report is specified to give without voters.
NoVoters == "NoVoters"

\* C25: for every closed election with totalVoters >= 1, the participation
\* report returns (effectiveVotes, ceil(effectiveVotes * 100 / totalVoters));
\* 5 of 7 gives 72, 8 of 9 gives 89, 4 of 5 gives 80, and the percentage is
\* between 0 and 100.
C25_Participacion ==
    (Reportado(Participacion) /\ TotalVoters >= 1) =>
        /\ unwrap(informe).res = Ok
        /\ LET efectivo == unwrap(informe).payload[1]
               porcentaje == unwrap(informe).payload[2]
           IN /\ efectivo = EffectiveVotes
              /\ porcentaje * TotalVoters >= EffectiveVotes * 100
              /\ (porcentaje - 1) * TotalVoters < EffectiveVotes * 100
              /\ porcentaje \in 0..100
              /\ (EffectiveVotes = 5 /\ TotalVoters = 7) => porcentaje = 72
              /\ (EffectiveVotes = 8 /\ TotalVoters = 9) => porcentaje = 89
              /\ (EffectiveVotes = 4 /\ TotalVoters = 5) => porcentaje = 80

\* C26: the participation report of a closed election without voters returns
\* the error NoVoters as a value.
C26_SinVotantes ==
    (Reportado(Participacion) /\ TotalVoters = 0) => unwrap(informe).res = NoVoters

\* The candidates of the closed election, as (account, totalVotes) in
\* candidate-number order, and the place of an account among them.
Candidatos == entrada.respuesta.datos
NumeroDe(id) == CHOOSE i \in 1..Len(Candidatos) : Candidatos[i][1] = id
\* The ranked list of a result report that returned one.
Ranking == unwrap(informe).payload[2]
Ganador == unwrap(informe).payload[1]

\* C27: the ranked list of a result report is a permutation of the election's
\* candidates in non-increasing order of totalVotes, and candidates of equal
\* totalVotes keep their candidate-number order.
C27_RankingEstable ==
    (Reportado(Resultado) /\ unwrap(informe).res = Ok) =>
        /\ Len(Ranking) = Len(Candidatos)
        /\ \A i \in 1..Len(Candidatos) :
              Cardinality({k \in 1..Len(Ranking) :
                              <<Ranking[k][1], Ranking[k][5]>> = Candidatos[i]}) = 1
        /\ \A k, l \in 1..Len(Ranking) :
              k < l =>
                 /\ Ranking[k][5] >= Ranking[l][5]
                 /\ Ranking[k][5] = Ranking[l][5] =>
                       NumeroDe(Ranking[k][1]) < NumeroDe(Ranking[l][1])

\* A result report of three candidates, the last two tied above the first.
C27_Witness ==
    /\ Reportado(Resultado)
    /\ unwrap(informe).res = Ok
    /\ Len(Candidatos) = 3
    /\ Candidatos[1][2] < Candidatos[2][2]
    /\ Candidatos[2][2] = Candidatos[3][2]
    /\ Ranking[1][1] = Candidatos[2][1]
    /\ Ranking[2][1] = Candidatos[3][1]

\* C28: in a result report the winner is None exactly when the two candidates
\* of most votes have equal totalVotes; otherwise it is the first of the ranked
\* list, with strictly more votes than every other candidate; the full ranked
\* list is returned in both cases.
C28_Ganador ==
    (Reportado(Resultado) /\ unwrap(informe).res = Ok) =>
        LET votos == [i \in 1..Len(Candidatos) |-> Candidatos[i][2]]
            empate == \E i, j \in 1..Len(Candidatos) :
                         /\ i # j
                         /\ votos[i] = votos[j]
                         /\ \A k \in 1..Len(Candidatos) : votos[k] <= votos[i]
        IN /\ Ganador = None <=> empate
           /\ Ganador # None =>
                 /\ Ganador = Some(Ranking[1])
                 /\ \A k \in 1..Len(Candidatos) :
                       k # NumeroDe(Ranking[1][1]) => votos[k] < Ranking[1][5]
           /\ Len(Ranking) = Len(Candidatos)
           /\ \A i \in 1..Len(Candidatos) :
                 \E k \in 1..Len(Ranking) : <<Ranking[k][1], Ranking[k][5]>> = Candidatos[i]

\* A result report without a winner: the first two of three candidates of the
\* ranked list are tied, and the list holds the three.
C28_Witness ==
    /\ Reportado(Resultado)
    /\ unwrap(informe).res = Ok
    /\ Ganador = None
    /\ Len(Ranking) = 3
    /\ Ranking[1][5] = Ranking[2][5]
    /\ Ranking[2][5] > Ranking[3][5]

\* C29: the result report returns a success or an error value for every
\* closed election, also for one without candidates: the call never panics.
C29_SinPanico ==
    (entrada # None /\ entrada.mensaje = Resultado /\ is_some(informe)) =>
        unwrap(informe).res # Panic

\* hasVoted of every VoterRecord of an election of a storage, in list order
Banderas(st, e) ==
    [i \in 1..Len(st.elecciones[e].votantes) |-> st.elecciones[e].votantes[i].voto_emitido]

\* C31: a VoterRecord whose hasVoted is true keeps it true over every step, and
\* keeps its place and its identity; a castVote that fails leaves the hasVoted
\* of every record as it was.
C31_VotoIrreversible ==
    /\ [](\A u \in Ids, e \in Elecs, c \in CandidatoIds :
            Votar(u, e, c).res # Ok => Banderas(Votar(u, e, c).self, e) = Banderas(Self, e))
    /\ [][\A e \in Elecs : \A i \in 1..Len(elecciones[e].votantes) :
             elecciones[e].votantes[i].voto_emitido =>
                /\ i <= Len(elecciones'[e].votantes)
                /\ elecciones'[e].votantes[i].id = elecciones[e].votantes[i].id
                /\ elecciones'[e].votantes[i].voto_emitido]_vars

\* C31 witness: a voter has voted and a new castVote by it is refused, both for
\* an existing and for a missing candidate, while another voter's vote for the
\* same candidate would overflow its tally.
C31_Witness ==
    \E e \in Elecs, u \in Ids, u2 \in Ids, c \in CandidatoIds, c2 \in CandidatoIds :
        /\ HaVotado(e, u)
        /\ Votar(u, e, c).res = AlreadyVoted
        /\ Votar(u, e, c2).res = CandidateNotFound
        /\ Votar(u2, e, c).res = Overflow

\* C32: an identity in the global rejected set stays in it over every step,
\* is neither pending nor registered, and its requestRegistration fails with
\* AlreadyRejected while registration is open and it is not the administrator;
\* a registered identity stays registered over every step.
C32_RechazoGlobalPermanente ==
    /\ [](\A u \in IdsRechazados :
            /\ u \notin IdsPendientes
            /\ u \notin IdsRegistrados
            /\ (registro_activado /\ u # administrador) =>
                  \A perfil \in PerfilesRegistro :
                     /\ Registrarse(u, perfil).res = AlreadyRejected
                     /\ Registrarse(u, perfil).self = Self)
    /\ [][/\ IdsRechazados \subseteq IdsRechazados'
          /\ IdsRegistrados \subseteq IdsRegistrados']_vars

\* C32 witness: with registration open, an identity that is not the
\* administrator is rejected, another is registered, and the administrator is
\* no longer the deployer.
C32_Witness ==
    /\ registro_activado
    /\ administrador # Deployer
    /\ \E u \in IdsRechazados : u # administrador
    /\ IdsRegistrados # {}

\* C33: no identity is twice in the pending queue of one election; a
\* joinElection by an identity pending there fails with
\* AlreadyPendingInElection and changes nothing.
C33_PendienteUnaVez ==
    \A e \in Elecs :
        /\ \A i, j \in 1..Len(elecciones[e].usuarios_pendientes) :
              elecciones[e].usuarios_pendientes[i][1] = elecciones[e].usuarios_pendientes[j][1]
                 => i = j
        /\ \A u \in Ids, tipo \in TIPO_DE_USUARIO :
              Pendiente(e, u) =>
                 /\ Ingresar(u, e, tipo).res = AlreadyPendingInElection
                 /\ Ingresar(u, e, tipo).self = Self

\* C33 witness: two identities are pending in one election, behind a request
\* that was already reviewed.
C33_Witness ==
    \E e \in Elecs :
        /\ Len(elecciones[e].usuarios_pendientes) = 2
        /\ Len(elecciones[e].votantes) + Len(elecciones[e].candidatos)
              + Len(elecciones[e].usuarios_rechazados) >= 1

\* The sum of a sequence of numbers.
RECURSIVE Suma(_)
Suma(s) == IF s = <<>> THEN 0 ELSE Head(s) + Suma(Tail(s))

\* C34: in every election the totalVotes of the candidates add up to the
\* number of VoterRecords with hasVoted true; in cached Results the votes per
\* candidate add up to votesCast, and votesCast <= totalVoters.
C34_VotosCuadran ==
    \A e \in Elecs :
        /\ Suma([i \in 1..Len(elecciones[e].candidatos) |-> Votos(e, i)]) =
              Cardinality({i \in 1..Len(elecciones[e].votantes) :
                              elecciones[e].votantes[i].voto_emitido})
        /\ is_some(elecciones[e].resultados) =>
              LET res == unwrap(elecciones[e].resultados) IN
              /\ Suma([i \in 1..Len(res.votos_candidatos) |-> res.votos_candidatos[i][2]])
                    = res.votos_realizados
              /\ res.votos_realizados <= res.votos_totales

\* C34 witness: the cached Results of an election count one vote cast of two
\* voters, between two candidates.
C34_Witness ==
    \E e \in Elecs :
        /\ is_some(elecciones[e].resultados)
        /\ unwrap(elecciones[e].resultados).votos_realizados = 1
        /\ unwrap(elecciones[e].resultados).votos_totales = 2
        /\ Len(unwrap(elecciones[e].resultados).votos_candidatos) = 2

\* The identities an election holds: queued, admitted as voter, admitted as
\* candidate.
IdsEnEleccion(e) ==
    {elecciones[e].usuarios_pendientes[i][1] : i \in 1..Len(elecciones[e].usuarios_pendientes)}
    \cup {elecciones[e].votantes[i].id : i \in 1..Len(elecciones[e].votantes)}
    \cup {elecciones[e].candidatos[i].id : i \in 1..Len(elecciones[e].candidatos)}
InformacionCandidato(e, c) == obtener_informacion_candidato_eleccion_privado(e, c)

\* C35: every identity in an election's pending queue, voters list or
\* candidates list is registered; joinElection by an identity that is not
\* fails with NotRegistered and changes nothing; the candidate information of
\* an existing candidate is the profile of its account, and the message
\* panics for no election and candidate number.
C35_SoloRegistrados ==
    /\ \A e \in Elecs : \A u \in IdsEnEleccion(e) : Registrado(u)
    /\ \A u \in Ids, e \in EleccionIds, tipo \in TIPO_DE_USUARIO :
          ~Registrado(u) =>
             /\ Ingresar(u, e, tipo).res = NotRegistered
             /\ Ingresar(u, e, tipo).self = Self
    /\ \A e \in EleccionIds, c \in CandidatoIds :
          /\ InformacionCandidato(e, c).res # Panic
          /\ (e \in Elecs /\ EsCandidato(e, c)) =>
                /\ InformacionCandidato(e, c).res = Ok
                /\ \E i \in 1..Len(usuarios) :
                      /\ usuarios[i].id = elecciones[e].candidatos[c].id
                      /\ unwrap(InformacionCandidato(e, c).payload) =
                            <<"Nombre: ", usuarios[i].nombre, "\nApellido: ",
                              usuarios[i].apellido, "\nDNI: ", usuarios[i].dni>>

\* C35 witness: an election holds a candidate, a voter and a queued request
\* while some identity is not registered.
C35_Witness ==
    \E e \in Elecs :
        /\ elecciones[e].candidatos # <<>>
        /\ elecciones[e].votantes # <<>>
        /\ elecciones[e].usuarios_pendientes # <<>>
        /\ \E u \in Ids : ~Registrado(u)

\* C36: an election's votingStarted is true only when the clock has reached
\* its startTime; over every step the clock does not go back and a true
\* votingStarted stays true; a castVote succeeds only when the clock has
\* reached startTime.
C36_InicioSegunReloj ==
    /\ [](\A e \in Elecs :
            elecciones[e].votacion_iniciada => block_timestamp >= elecciones[e].fecha_inicio)
    /\ [](\A u \in Ids, e \in Elecs, c \in CandidatoIds :
            Votar(u, e, c).res = Ok => block_timestamp >= elecciones[e].fecha_inicio)
    /\ [][/\ block_timestamp' >= block_timestamp
          /\ \A e \in Elecs :
                elecciones[e].votacion_iniciada => elecciones'[e].votacion_iniciada]_vars

\* C36 witness: voting has started in an election, a vote was counted in it,
\* and the clock has passed its startTime.
C36_Witness ==
    \E e \in Elecs, u \in Ids :
        /\ elecciones[e].votacion_iniciada
        /\ exitos[<<e, u>>] = 1
        /\ block_timestamp > elecciones[e].fecha_inicio

\* C37: once the Results of an election are cached no castVote on it succeeds,
\* and the hasVoted flags and the tallies of the election agree with the
\* cached Results.
C37_ResultadosDefinitivos ==
    \A e \in Elecs :
        is_some(elecciones[e].resultados) =>
            /\ \A u \in Ids, c \in CandidatoIds : Votar(u, e, c).res # Ok
            /\ unwrap(elecciones[e].resultados).votos_realizados =
                  Cardinality({i \in 1..Len(elecciones[e].votantes) :
                                  elecciones[e].votantes[i].voto_emitido})
            /\ \A i \in 1..Len(unwrap(elecciones[e].resultados).votos_candidatos) :
                  unwrap(elecciones[e].resultados).votos_candidatos[i][2] = Votos(e, i)

\* C38: over every step, the voters list and the candidates list of an
\* election whose votingStarted is true stay as they are in length.
C38_ListasCerradas ==
    [][\A e \in Elecs :
          elecciones[e].votacion_iniciada =>
             /\ Len(elecciones'[e].votantes) = Len(elecciones[e].votantes)
             /\ Len(elecciones'[e].candidatos) = Len(elecciones[e].candidatos)]_vars

\* C39: in every election no identity is more than once in the voters list
\* and the candidates list taken together.
C39_AdmitidoUnaVez ==
    \A e \in Elecs, u \in Ids :
        Cardinality({i \in 1..Len(elecciones[e].votantes) : elecciones[e].votantes[i].id = u})
          + Cardinality({i \in 1..Len(elecciones[e].candidatos) :
                            elecciones[e].candidatos[i].id = u}) <= 1

\* C40: every stored election has startTime <= endTime.
C40_InicioAntesDelFinal ==
    \A e \in Elecs : elecciones[e].fecha_inicio <= elecciones[e].fecha_final

====
